---------------------------- MODULE Spec2Model ----------------------------
(***************************************************************************)
(* A model of the FASMAA IPC surveillance client: the permission resolver  *)
(* and the session/profile gate of AuthProvider, the home page that gates  *)
(* the dashboard, the login form, and the CAUTI surveillance form.         *)
(*                                                                         *)
(* Three specifications share the module's variables:                      *)
(*   SpecPerm   canAccessForm / hasRole applied to every profile           *)
(*   Spec       the AuthProvider + HomePage + LoginForm state machine      *)
(*   SpecCauti  the CAUTI form: handleChange, handleSubmit, the insert     *)
(***************************************************************************)
EXTENDS Integers, FiniteSets, Sequences, TLC

VARIABLES
    \* AuthProvider state (useState hooks)
    user, profile, loading, error, initialized,
    \* the auth service's session and the user_profiles table
    session, dbRow,
    \* positions of the asynchronous handlers
    initPc, initUid, signOutPc, fetches, loginPc, loginUid,
    \* router and HomePage state
    route, shouldRedirect, timer,
    \* the last permission query and its answer
    permForm, permResult,
    \* CautiForm state and the insert request in flight
    formData, cautiLoading, cautiError, cautiSuccess, cautiInsert,
    \* MainDashboard: the section (and so the form) that is mounted
    activeSection,
    \* ClabsiBundleForm state of each open tab, its requests in flight, and
    \* the clabsi_bundle_entries table
    bundleFormData, selectedPatient, savedEntries, bundleLoading,
    bundleModalContent, bundleMountLoad, bundleReload, bundleInsert,
    bundleTable, bundleNextId,
    \* MdrForm and ClabsiForm state and their insert requests in flight
    mdrLoading, mdrFormStatus, mdrErrors, mdrInsert,
    clabsiLoading, clabsiFormStatus, clabsiErrors, clabsiInsert,
    \* SsiWatchlistPage and SsiNewCaseForm state and their requests in flight
    ssiModalOpen, ssiErrors, ssiSubmitting, ssiInsert, ssiAlert,
    ssiLoading, ssiError, ssiFetches,
    \* useDashboardStats: the call awaited, the responses received, the state
    statsPc, statsResponses, statsThrown, dashboardStats, statsLoading,
    \* UserManagement state and deleteUser's position
    umPc, umError, umSuccess, umActionLoading, umLoading, umAuthError, umListed,
    \* the auth service's identities, the user_profiles row of a person who
    \* is not one of Users, the latest write sent to user_profiles, and the
    \* row and is_active value of UserManagement's operation in flight
    authUsers, extraRow, lastWrite, umTarget, umForm,
    \* FormsPage state and its fetches in flight
    fpActiveTab, fpEntries, fpLoading, fpError, fpFetches,
    \* ProfileSection state and handleProfileSubmit's position
    psPc, psLoading, psError, psSuccess

authVars == <<user, profile, loading, error, initialized>>
envVars == <<session, dbRow>>
taskVars == <<initPc, initUid, signOutPc, fetches, loginPc, loginUid>>
pageVars == <<route, shouldRedirect, timer>>
permVars == <<permForm, permResult>>
cautiVars == <<formData, cautiLoading, cautiError, cautiSuccess, cautiInsert>>
gateVars == <<authVars, envVars, taskVars, pageVars, permVars>>
bundleTabVars ==
    <<bundleFormData, selectedPatient, savedEntries, bundleLoading,
      bundleModalContent, bundleMountLoad, bundleReload, bundleInsert>>
bundleVars == <<bundleTabVars, bundleTable, bundleNextId>>
mdrVars == <<mdrLoading, mdrFormStatus, mdrErrors, mdrInsert>>
clabsiVars == <<clabsiLoading, clabsiFormStatus, clabsiErrors, clabsiInsert>>
ssiVars ==
    <<ssiModalOpen, ssiErrors, ssiSubmitting, ssiInsert, ssiAlert, ssiLoading,
      ssiError, ssiFetches>>
statsVars == <<statsPc, statsResponses, statsThrown, dashboardStats, statsLoading>>
umVars == <<umPc, umError, umSuccess, umActionLoading, umLoading, umAuthError, umListed>>
acctVars == <<authUsers, extraRow, lastWrite, umTarget, umForm>>
fpVars == <<fpActiveTab, fpEntries, fpLoading, fpError, fpFetches>>
psVars == <<psPc, psLoading, psError, psSuccess>>
formVars == <<mdrVars, clabsiVars, ssiVars, statsVars, umVars, acctVars, fpVars, psVars>>
suiteVars == <<activeSection, bundleVars, formVars>>
nonBundleVars == <<gateVars, cautiVars, activeSection, formVars>>
nonMdrVars ==
    <<gateVars, cautiVars, activeSection, bundleVars, clabsiVars, ssiVars, statsVars,
      umVars, acctVars, fpVars, psVars>>
nonClabsiVars ==
    <<gateVars, cautiVars, activeSection, bundleVars, mdrVars, ssiVars, statsVars,
      umVars, acctVars, fpVars, psVars>>
nonSsiVars ==
    <<gateVars, cautiVars, activeSection, bundleVars, mdrVars, clabsiVars, statsVars,
      umVars, acctVars, fpVars, psVars>>
nonStatsVars ==
    <<gateVars, cautiVars, activeSection, bundleVars, mdrVars, clabsiVars, ssiVars,
      umVars, acctVars, fpVars, psVars>>
nonUmBase ==
    <<authVars, session, taskVars, pageVars, permVars, cautiVars, activeSection,
      bundleVars, mdrVars, clabsiVars, ssiVars, statsVars, fpVars, psVars>>
nonUmVars == <<nonUmBase, acctVars>>
vars == <<gateVars, cautiVars, suiteVars>>

---------------------------------------------------------------------------
(* Enumerations of types/database.ts *)

DepartmentType ==
    {"ICU", "NICU", "PICU", "CCU", "GENERAL_SURGERY", "ORTHOPEDIC",
     "CARDIAC_SURGERY", "NEUROSURGERY", "OBSTETRICS_GYNECOLOGY", "PEDIATRICS",
     "INTERNAL_MEDICINE", "EMERGENCY", "DIALYSIS", "ONCOLOGY", "BURNS_UNIT",
     "LABORATORY", "RADIOLOGY", "PHARMACY", "IPC_COMMITTEE"}

UserRole ==
    {"ADMIN", "IPC_FOCAL", "IPC_OFFICER", "IPC_COMMITTEE", "DEPARTMENT_HEAD",
     "CONSULTANT", "MEDICAL_OFFICER", "STAFF_NURSE", "CHARGE_NURSE",
     "INFECTION_CONTROL_NURSE", "LABORATORY_TECHNICIAN", "VIEWER"}

FormType ==
    {"CAUTI", "CLABSI", "CLABSI_BUNDLE", "SSI", "VAP", "HAP", "MDRO",
     "C_DIFF", "MRSA", "VRE", "ESBL"}

AllSurveillanceForms ==
    {"CAUTI", "CLABSI", "SSI", "VAP", "HAP", "MDRO", "C_DIFF", "MRSA", "VRE", "ESBL"}

ROLE_FORM_PERMISSIONS ==
    [r \in UserRole |->
        CASE r = "ADMIN" -> AllSurveillanceForms
          [] r = "IPC_FOCAL" -> AllSurveillanceForms
          [] r = "IPC_OFFICER" -> AllSurveillanceForms
          [] r = "IPC_COMMITTEE" -> AllSurveillanceForms
          [] r = "DEPARTMENT_HEAD" -> {"CAUTI", "CLABSI", "SSI", "VAP", "HAP", "MDRO"}
          [] r = "CONSULTANT" -> {"CAUTI", "CLABSI", "SSI", "VAP", "HAP", "MDRO"}
          [] r = "MEDICAL_OFFICER" -> {"CAUTI", "CLABSI", "SSI", "MDRO"}
          [] r = "STAFF_NURSE" -> {"CAUTI", "CLABSI", "VAP"}
          [] r = "CHARGE_NURSE" -> {"CAUTI", "CLABSI", "VAP", "SSI"}
          [] r = "INFECTION_CONTROL_NURSE" -> {"CAUTI", "CLABSI", "SSI", "VAP", "HAP", "MDRO"}
          [] r = "LABORATORY_TECHNICIAN" -> {"MDRO", "C_DIFF", "MRSA", "VRE", "ESBL"}
          [] r = "VIEWER" -> {}]

DEPARTMENT_FORM_PERMISSIONS ==
    [d \in DepartmentType |->
        CASE d = "ICU" -> {"CAUTI", "CLABSI", "VAP", "HAP", "MDRO"}
          [] d = "NICU" -> {"CLABSI", "VAP", "MDRO"}
          [] d = "PICU" -> {"CAUTI", "CLABSI", "VAP", "MDRO"}
          [] d = "CCU" -> {"CAUTI", "CLABSI", "VAP", "MDRO"}
          [] d = "GENERAL_SURGERY" -> {"SSI", "CAUTI", "MDRO"}
          [] d = "ORTHOPEDIC" -> {"SSI", "CAUTI", "MDRO"}
          [] d = "CARDIAC_SURGERY" -> {"SSI", "CAUTI", "CLABSI", "MDRO"}
          [] d = "NEUROSURGERY" -> {"SSI", "CAUTI", "MDRO"}
          [] d = "OBSTETRICS_GYNECOLOGY" -> {"SSI", "CAUTI", "MDRO"}
          [] d = "PEDIATRICS" -> {"CAUTI", "MDRO"}
          [] d = "INTERNAL_MEDICINE" -> {"CAUTI", "MDRO"}
          [] d = "EMERGENCY" -> {"CAUTI", "MDRO"}
          [] d = "DIALYSIS" -> {"CLABSI", "MDRO"}
          [] d = "ONCOLOGY" -> {"CAUTI", "CLABSI", "MDRO"}
          [] d = "BURNS_UNIT" -> {"SSI", "CAUTI", "MDRO"}
          [] d = "LABORATORY" -> {"MDRO", "C_DIFF", "MRSA", "VRE", "ESBL"}
          [] d = "RADIOLOGY" -> {"MDRO"}
          [] d = "PHARMACY" -> {"MDRO"}
          [] d = "IPC_COMMITTEE" -> AllSurveillanceForms]

---------------------------------------------------------------------------
(* Values.  null is the string "null"; an absent profile is the record     *)
(* NoProfile, so that every profile value has the same shape.              *)

NoUser == "null"
NoError == "null"
NoForm == "null"

Users == {"u1", "u2"}

NoProfile ==
    [id |-> "null", user_id |-> "null", role |-> "null",
     department |-> "null", is_active |-> FALSE]

\* The user_profiles row of user u as stored when dbRow[u] is st.
RoleOf == [u \in Users |-> IF u = "u1" THEN "ADMIN" ELSE "STAFF_NURSE"]
DepartmentOf == [u \in Users |-> IF u = "u1" THEN "IPC_COMMITTEE" ELSE "ICU"]

ProfileIdOf == [u \in Users |-> IF u = "u1" THEN "p1" ELSE "p2"]

ProfileRow(u, st) ==
    [id |-> ProfileIdOf[u], user_id |-> u, role |-> RoleOf[u],
     department |-> DepartmentOf[u], is_active |-> (st = "active")]

RowStates == {"none", "inactive", "active"}

---------------------------------------------------------------------------
(* Permission helpers of AuthProvider, as functions of a profile p.        *)

hasRoleOf(p, role) == p.role = role

hasDepartmentAccessOf(p, department) ==
    p.department = department \/ hasRoleOf(p, "ADMIN") \/ hasRoleOf(p, "IPC_FOCAL")

\* canAccessForm granting on either list
canAccessFormAnyList(p, formType) ==
    IF p = NoProfile THEN FALSE
    ELSE IF hasRoleOf(p, "ADMIN") \/ hasRoleOf(p, "IPC_FOCAL") \/ hasRoleOf(p, "IPC_OFFICER")
    THEN TRUE
    ELSE formType \in ROLE_FORM_PERMISSIONS[p.role]
         \/ formType \in DEPARTMENT_FORM_PERMISSIONS[p.department]

\* canAccessForm granting when the profile is absent
canAccessFormOpen(p, formType) ==
    IF hasRoleOf(p, "ADMIN") \/ hasRoleOf(p, "IPC_FOCAL") \/ hasRoleOf(p, "IPC_OFFICER")
    THEN TRUE
    ELSE LET rolePermissions ==
                 IF p.role \in UserRole THEN ROLE_FORM_PERMISSIONS[p.role] ELSE {}
             departmentPermissions ==
                 IF p.department \in DepartmentType
                 THEN DEPARTMENT_FORM_PERMISSIONS[p.department] ELSE {}
         IN  p = NoProfile
             \/ (formType \in rolePermissions /\ formType \in departmentPermissions)

\* canAccessForm
canAccessFormOf(p, formType) ==
    IF p = NoProfile THEN FALSE
    ELSE IF hasRoleOf(p, "ADMIN") \/ hasRoleOf(p, "IPC_FOCAL") \/ hasRoleOf(p, "IPC_OFFICER")
    THEN TRUE
    ELSE LET rolePermissions ==
                 IF p.role \in UserRole THEN ROLE_FORM_PERMISSIONS[p.role] ELSE {}
             hasRolePermission == formType \in rolePermissions
             departmentPermissions ==
                 IF p.department \in DepartmentType
                 THEN DEPARTMENT_FORM_PERMISSIONS[p.department] ELSE {}
             hasDepartmentPermission == formType \in departmentPermissions
         IN  hasRolePermission /\ hasDepartmentPermission

hasRole(role) == hasRoleOf(profile, role)
hasDepartmentAccess(department) == hasDepartmentAccessOf(profile, department)
canAccessForm(formType) == canAccessFormOf(profile, formType)
isAdmin == hasRole("ADMIN")
isIpcFocal == hasRole("IPC_FOCAL")
isIpcOfficer == hasRole("IPC_OFFICER")

---------------------------------------------------------------------------
(* The remote collaborator: the auth session and the user_profiles table.  *)

E_PROFILE == "User profile not found or inactive. Please contact administrator."
E_INIT == "Failed to initialize authentication"
E_REFRESH == "User profile not found or inactive"

MaxInFlight == 2
Slots == 1..MaxInFlight
IdleFetch == [kind |-> "idle", uid |-> NoUser]

\* select('*').eq('user_id', userId).eq('is_active', true).single(): the row
\* when it is active; an error (no row, several rows, network) otherwise.
ActiveRowQuery(userId) ==
    IF dbRow[userId] = "active" THEN {ProfileRow(userId, "active")} ELSE {}

AnyRowQuery(userId) ==
    IF dbRow[userId] # "none" THEN {ProfileRow(userId, dbRow[userId])} ELSE {}

\* fetchUserProfile without the is_active filter
fetchUserProfileAnyRow(userId) == AnyRowQuery(userId) \cup {NoProfile}

\* fetchUserProfile: the outcomes of one call; null on error or no row.
fetchUserProfile(userId) == ActiveRowQuery(userId) \cup {NoProfile}

---------------------------------------------------------------------------
(* HomePage (app/page.tsx): what it renders, and its redirect effect.      *)

HomePageViewOf(l, sr, u, e, p) ==
    IF l \/ sr THEN "spinner"
    ELSE IF u # NoUser /\ e # NoError /\ p = NoProfile THEN "profileIssue"
    ELSE IF u = NoUser \/ p = NoProfile THEN "blank"
    ELSE "dashboard"

HomePageView ==
    IF route # "/" THEN "unmounted"
    ELSE HomePageViewOf(loading, shouldRedirect, user, error, profile)

\* The commit of a render with user u, loading l, on route r: HomePage's
\* effect on [user, loading] (cleanup of the pending timer, then the redirect
\* branch), its mount, or its unmount.
Commit(u, l, r) ==
    /\ route' = r
    /\ IF r # "/"
       THEN shouldRedirect' = FALSE /\ timer' = FALSE
       ELSE IF route = "/" /\ u = user /\ l = loading
       THEN UNCHANGED <<shouldRedirect, timer>>
       ELSE IF ~l /\ u = NoUser
       THEN shouldRedirect' = TRUE /\ timer' = TRUE
       ELSE /\ shouldRedirect' = (route = "/" /\ shouldRedirect)
            /\ timer' = FALSE

\* setTimeout(() => router.push('/login'), 100)
TimerFire ==
    /\ timer
    /\ Commit(user, loading, "/login")
    /\ UNCHANGED <<suiteVars, authVars, envVars, taskVars, permVars, cautiVars>>

\* "Back to Login" on the Profile Issue screen
BackToLogin ==
    /\ HomePageView = "profileIssue"
    /\ Commit(user, loading, "/login")
    /\ UNCHANGED <<suiteVars, authVars, envVars, taskVars, permVars, cautiVars>>

---------------------------------------------------------------------------
(* AuthProvider: initializeAuth, the onAuthStateChange handler,            *)
(* refreshProfile and signOut.  Every await is a step boundary.            *)

FreeSlots == {i \in Slots : fetches[i].kind = "idle"}

StartFetch(kind, uid) ==
    LET i == CHOOSE k \in FreeSlots : \A j \in FreeSlots : k <= j
    IN  fetches' = [fetches EXCEPT ![i] = [kind |-> kind, uid |-> uid]]

\* initializeAuth up to its first await: setLoading(true); setError(null)
InitializeAuthStart ==
    /\ initPc = "start"
    /\ loading' = TRUE
    /\ error' = NoError
    /\ initPc' = "getSession"
    /\ Commit(user, TRUE, route)
    /\ UNCHANGED <<suiteVars, user, profile, initialized, envVars, initUid, signOutPc,
                   fetches, loginPc, loginUid, permVars, cautiVars>>

\* getSession() resolves with a session user: go on to fetchUserProfile
InitializeAuthSession ==
    /\ initPc = "getSession"
    /\ session # NoUser
    /\ initPc' = "fetch"
    /\ initUid' = session
    /\ UNCHANGED <<suiteVars, authVars, envVars, signOutPc, fetches, loginPc, loginUid,
                   pageVars, permVars, cautiVars>>

\* getSession() resolves without a session: setUser(null); setProfile(null); finally
InitializeAuthNoSession ==
    /\ initPc = "getSession"
    /\ session = NoUser
    /\ user' = NoUser
    /\ profile' = NoProfile
    /\ loading' = FALSE
    /\ initialized' = TRUE
    /\ initPc' = "done"
    /\ Commit(NoUser, FALSE, route)
    /\ UNCHANGED <<suiteVars, error, envVars, initUid, signOutPc, fetches, loginPc,
                   loginUid, permVars, cautiVars>>

\* getSession() throws: catch sets the error; finally
InitializeAuthThrows ==
    /\ initPc = "getSession"
    /\ error' = E_INIT
    /\ loading' = FALSE
    /\ initialized' = TRUE
    /\ initPc' = "done"
    /\ Commit(user, FALSE, route)
    /\ UNCHANGED <<suiteVars, user, profile, envVars, initUid, signOutPc, fetches,
                   loginPc, loginUid, permVars, cautiVars>>

\* fetchUserProfile(currentSession.user.id) resolves; both branches; finally
InitializeAuthFetch ==
    /\ initPc = "fetch"
    /\ \E userProfile \in fetchUserProfile(initUid) :
          /\ user' = initUid
          /\ profile' = userProfile
          /\ error' = IF userProfile # NoProfile THEN error ELSE E_PROFILE
    /\ loading' = FALSE
    /\ initialized' = TRUE
    /\ initPc' = "done"
    /\ initUid' = NoUser
    /\ Commit(initUid, FALSE, route)
    /\ UNCHANGED <<suiteVars, envVars, signOutPc, fetches, loginPc, loginUid, permVars,
                   cautiVars>>

\* The handler's SIGNED_IN branch up to its await: nothing before
\* initialization, else a fetchUserProfile(session.user.id) in flight.
SignedInHandlerStart(u) ==
    IF ~initialized THEN UNCHANGED fetches
    ELSE FreeSlots # {} /\ StartFetch("signedIn", u)

\* The handler's SIGNED_IN branch after its await
SignedInResolve(i) ==
    /\ fetches[i].kind = "signedIn"
    /\ \E userProfile \in fetchUserProfile(fetches[i].uid) :
          profile' = userProfile
    /\ user' = fetches[i].uid
    /\ error' = NoError
    /\ loading' = FALSE
    /\ fetches' = [fetches EXCEPT ![i] = IdleFetch]
    /\ Commit(fetches[i].uid, FALSE, route)
    /\ UNCHANGED <<suiteVars, initialized, envVars, initPc, initUid, signOutPc, loginPc,
                   loginUid, permVars, cautiVars>>

\* The handler's SIGNED_OUT branch, committed on route r
SignedOutHandler(r) ==
    IF ~initialized
    THEN UNCHANGED authVars /\ Commit(user, loading, r)
    ELSE /\ user' = NoUser
         /\ profile' = NoProfile
         /\ error' = NoError
         /\ loading' = FALSE
         /\ UNCHANGED initialized
         /\ Commit(NoUser, FALSE, r)

\* The auth client reports SIGNED_IN for the current session (tab focus,
\* another tab signing in)
SignedInEvent ==
    /\ session # NoUser
    /\ initialized
    /\ SignedInHandlerStart(session)
    /\ UNCHANGED <<suiteVars, authVars, envVars, initPc, initUid, signOutPc, loginPc,
                   loginUid, pageVars, permVars, cautiVars>>

\* The session ends outside this page (expiry, another tab signing out)
SignedOutEvent ==
    /\ session # NoUser
    /\ initialized
    /\ session' = NoUser
    /\ SignedOutHandler(route)
    /\ UNCHANGED <<suiteVars, dbRow, taskVars, permVars, cautiVars>>

\* The handler's TOKEN_REFRESHED branch: setUser(session.user)
TokenRefreshedEvent ==
    /\ session # NoUser
    /\ initialized
    /\ user' = session
    /\ Commit(session, loading, route)
    /\ UNCHANGED <<suiteVars, profile, loading, error, initialized, envVars, taskVars,
                   permVars, cautiVars>>

\* refreshProfile up to its await (called by ProfileSection and
\* UserManagement, which the dashboard renders)
RefreshProfileStart ==
    /\ HomePageView = "dashboard"
    /\ user # NoUser
    /\ FreeSlots # {}
    /\ StartFetch("refresh", user)
    /\ UNCHANGED <<suiteVars, authVars, envVars, initPc, initUid, signOutPc, loginPc,
                   loginUid, pageVars, permVars, cautiVars>>

\* refreshProfile after its await
RefreshProfileResolve(i) ==
    /\ fetches[i].kind = "refresh"
    /\ \E userProfile \in fetchUserProfile(fetches[i].uid) :
          /\ profile' = userProfile
          /\ error' = IF userProfile = NoProfile THEN E_REFRESH ELSE error
    /\ fetches' = [fetches EXCEPT ![i] = IdleFetch]
    /\ UNCHANGED <<suiteVars, user, loading, initialized, envVars, initPc, initUid,
                   signOutPc, loginPc, loginUid, pageVars, permVars, cautiVars>>

\* signOut up to its await: the cache is cleared first.  The Sign Out buttons
\* are MainDashboard's, which HomePage renders as the dashboard.
SignOutStart ==
    /\ signOutPc = "idle"
    /\ HomePageView = "dashboard"
    /\ loading' = TRUE
    /\ user' = NoUser
    /\ profile' = NoProfile
    /\ error' = NoError
    /\ signOutPc' = "remote"
    /\ Commit(NoUser, TRUE, route)
    /\ UNCHANGED <<suiteVars, initialized, envVars, initPc, initUid, fetches, loginPc,
                   loginUid, permVars, cautiVars>>

\* supabase.auth.signOut() succeeds: the session ends and the listener is
\* told SIGNED_OUT before the call returns
SignOutRemoteOk ==
    /\ signOutPc = "remote"
    /\ session' = NoUser
    /\ SignedOutHandler(route)
    /\ signOutPc' = "return"
    /\ UNCHANGED <<suiteVars, dbRow, initPc, initUid, fetches, loginPc, loginUid,
                   permVars, cautiVars>>

\* router.push('/login'); finally setLoading(false): after the call returned
\* (its error, if any, ignored) or threw
SignOutFinish ==
    /\ signOutPc \in {"remote", "return"}
    /\ loading' = FALSE
    /\ signOutPc' = "idle"
    /\ Commit(user, FALSE, "/login")
    /\ UNCHANGED <<suiteVars, user, profile, error, initialized, envVars, initPc,
                   initUid, fetches, loginPc, loginUid, permVars, cautiVars>>

---------------------------------------------------------------------------
(* LoginForm.handleLogin (mounted on /login), and the environment.         *)

\* signInWithPassword succeeds for u: the session is u's and the listener is
\* told SIGNED_IN.  (A failed sign-in changes nothing outside the form.)
LoginSignIn(u) ==
    /\ route = "/login"
    /\ loginPc = "idle"
    /\ session' = u
    /\ SignedInHandlerStart(u)
    /\ loginPc' = "check"
    /\ loginUid' = u
    /\ UNCHANGED <<suiteVars, authVars, dbRow, initPc, initUid, signOutPc, pageVars,
                   permVars, cautiVars>>

\* The active-profile query returns a row: router.push('/')
LoginCheckActive ==
    /\ loginPc = "check"
    /\ ActiveRowQuery(loginUid) # {}
    /\ loginPc' = "idle"
    /\ loginUid' = NoUser
    /\ Commit(user, loading, "/")
    /\ UNCHANGED <<suiteVars, authVars, envVars, initPc, initUid, signOutPc, fetches,
                   permVars, cautiVars>>

\* profileError || !profile: go on to supabase.auth.signOut()
LoginCheckMissing ==
    /\ loginPc = "check"
    /\ loginPc' = "signout"
    /\ UNCHANGED <<suiteVars, authVars, envVars, initPc, initUid, signOutPc, fetches,
                   loginUid, pageVars, permVars, cautiVars>>

\* That sign-out succeeds: the session ends, the listener is told SIGNED_OUT
LoginSignOut ==
    /\ loginPc = "signout"
    /\ session' = NoUser
    /\ SignedOutHandler(route)
    /\ loginPc' = "idle"
    /\ loginUid' = NoUser
    /\ UNCHANGED <<suiteVars, dbRow, initPc, initUid, signOutPc, fetches, permVars,
                   cautiVars>>

\* That sign-out returns an error: the session stays
LoginSignOutFails ==
    /\ loginPc = "signout"
    /\ loginPc' = "idle"
    /\ loginUid' = NoUser
    /\ UNCHANGED <<suiteVars, authVars, envVars, initPc, initUid, signOutPc, fetches,
                   pageVars, permVars, cautiVars>>

\* An administrator creates, activates, deactivates or deletes u's profile
\* row (UserManagement of another session)
AdminSetRow(u, st) ==
    /\ dbRow[u] # st
    /\ dbRow' = [dbRow EXCEPT ![u] = st]
    /\ UNCHANGED <<suiteVars, authVars, session, taskVars, pageVars, permVars, cautiVars>>

\* Another tab of the browser signs in as u: the session the auth client
\* shares between tabs is replaced
SessionReplaced(u) ==
    /\ session # NoUser
    /\ session # u
    /\ session' = u
    /\ UNCHANGED <<suiteVars, authVars, dbRow, taskVars, pageVars, permVars, cautiVars>>

\* The client state of a freshly loaded page on route r
FreshPage(r) ==
    /\ user = NoUser
    /\ profile = NoProfile
    /\ loading = TRUE
    /\ error = NoError
    /\ initialized = FALSE
    /\ initPc = "start"
    /\ initUid = NoUser
    /\ signOutPc = "idle"
    /\ fetches = [i \in Slots |-> IdleFetch]
    /\ loginPc = "idle"
    /\ loginUid = NoUser
    /\ route = r
    /\ shouldRedirect = FALSE
    /\ timer = FALSE

\* "Retry" on the Profile Issue screen: window.location.reload()
Retry ==
    /\ HomePageView = "profileIssue"
    /\ user' = NoUser
    /\ profile' = NoProfile
    /\ loading' = TRUE
    /\ error' = NoError
    /\ initialized' = FALSE
    /\ initPc' = "start"
    /\ initUid' = NoUser
    /\ signOutPc' = "idle"
    /\ fetches' = [i \in Slots |-> IdleFetch]
    /\ loginPc' = "idle"
    /\ loginUid' = NoUser
    /\ route' = "/"
    /\ shouldRedirect' = FALSE
    /\ timer' = FALSE
    /\ UNCHANGED <<suiteVars, envVars, permVars, cautiVars>>

---------------------------------------------------------------------------
(* CautiForm: form state, validateForm, handleSubmit and the insert.       *)

AllSymptomKeys ==
    <<"fever", "rigors", "hypotension", "confusion_with_leukocytosis",
      "costovertebral_pain", "suprapubic_tenderness",
      "testes_epididymis_prostate_pain", "purulent_discharge">>

\* The model carries the first NumSymptoms of the eight symptom checkboxes.
NumSymptoms == 3
SymptomKeys == {AllSymptomKeys[i] : i \in 1..NumSymptoms}
LabKeys == {"clean_catch_voided", "straight_catheter_specimen", "iuc_specimen"}
TextFields == {"patient_name", "hospital_id", "ward_bed_number", "catheter_insertion_date"}
TextValues == {"", "x"}

\* What a type="number" input can hold: '' (also for any text that is not a
\* number) or a number's text.  Numbers are carried in tenths so that 1.5 is
\* a value.
AgeTexts == {"", "-5", "0", "45", "1.5"}
AgeTenths ==
    [t \in AgeTexts |->
        CASE t = "" -> 0 [] t = "-5" -> 0 - 50 [] t = "0" -> 0
          [] t = "45" -> 450 [] t = "1.5" -> 15]

\* Number(text)
NumberOf(t) == AgeTenths[t]

\* The browser's test of a number input with the default step of 1
StepMatches(t) == t = "" \/ NumberOf(t) % 10 = 0

\* formData.age: the number 0 of initialState, or the input's text
AgeNumberZero == [type |-> "number", text |-> "0"]
AgeString(t) == [type |-> "string", text |-> t]

\* value={formData.age || ''}
AgeInputValue(age) ==
    IF age.type = "number" /\ NumberOf(age.text) = 0 THEN "" ELSE age.text

NoGender == "null"
GenderValues == {"", "Male", "Female"}

\* value={formData.gender || ''}
GenderSelectValue(g) == IF g = NoGender THEN "" ELSE g

initialState ==
    [patient_name |-> "", hospital_id |-> "", ward_bed_number |-> "",
     catheter_insertion_date |-> "", age |-> AgeNumberZero, gender |-> NoGender,
     symptoms |-> [k \in SymptomKeys |-> FALSE],
     laboratory_findings |-> [k \in LabKeys |-> FALSE]]

E_NO_PROFILE == "Your user profile is not loaded. Please refresh or contact an administrator."
E_REQUIRED == "Please fill in all required patient and catheter information."
E_SYMPTOM == "Please select at least one sign or symptom."
E_LAB == "Please select at least one laboratory finding."
E_INSERT == "insertError.message"
S_SUBMITTED == "CAUTI Surveillance Form submitted successfully!"

SomeTrue(flags) == \E k \in DOMAIN flags : flags[k] = TRUE

MissingRequired(fd) ==
    \/ fd.patient_name = ""
    \/ fd.hospital_id = ""
    \/ fd.ward_bed_number = ""
    \/ fd.catheter_insertion_date = ""

\* The browser's constraint validation of the form's required controls,
\* without the Sex select
CautiRequiredControlsNoSex(fd) ==
    /\ fd.patient_name # ""
    /\ fd.hospital_id # ""
    /\ fd.ward_bed_number # ""
    /\ fd.catheter_insertion_date # ""
    /\ AgeInputValue(fd.age) # ""
    /\ StepMatches(AgeInputValue(fd.age))

\* The browser's constraint validation of the form's required controls: a
\* submit event reaches handleSubmit only when every one of them has a value
\* (surveillance_date and reason_for_catheter are not carried)
CautiRequiredControls(fd) ==
    /\ fd.patient_name # ""
    /\ fd.hospital_id # ""
    /\ fd.ward_bed_number # ""
    /\ fd.catheter_insertion_date # ""
    /\ AgeInputValue(fd.age) # ""
    /\ StepMatches(AgeInputValue(fd.age))
    /\ GenderSelectValue(fd.gender) # ""

\* validateForm with the symptom check left out
validateFormNoSymptomCheck(fd) ==
    IF MissingRequired(fd) THEN E_REQUIRED
    ELSE IF ~SomeTrue(fd.laboratory_findings) THEN E_LAB
    ELSE NoError

\* validateForm with the two messages exchanged
validateFormSwapped(fd) ==
    IF MissingRequired(fd) THEN E_REQUIRED
    ELSE IF ~SomeTrue(fd.symptoms) THEN E_LAB
    ELSE IF ~SomeTrue(fd.laboratory_findings) THEN E_SYMPTOM
    ELSE NoError

\* validateForm: the error it sets, or NoError when it returns true
validateForm(fd) ==
    IF MissingRequired(fd) THEN E_REQUIRED
    ELSE IF ~SomeTrue(fd.symptoms) THEN E_SYMPTOM
    ELSE IF ~SomeTrue(fd.laboratory_findings) THEN E_LAB
    ELSE NoError

NoInsert ==
    [pending |-> FALSE, data |-> initialState, submitted_by |-> "null",
     department |-> "null"]

\* handleChange for a text input
CautiHandleChangeText(name, value) ==
    /\ activeSection = "cauti-form"
    /\ formData[name] # value
    /\ formData' = [formData EXCEPT ![name] = value]
    /\ UNCHANGED <<suiteVars, authVars, envVars, taskVars, pageVars, permVars,
                   cautiLoading, cautiError, cautiSuccess, cautiInsert>>

\* handleChange for a checkbox named section.key
CautiHandleChangeCheckbox(section, key, checked) ==
    /\ activeSection = "cauti-form"
    /\ key \in DOMAIN formData[section]
    /\ formData[section][key] # checked
    /\ formData' = [formData EXCEPT ![section][key] = checked]
    /\ UNCHANGED <<suiteVars, authVars, envVars, taskVars, pageVars, permVars,
                   cautiLoading, cautiError, cautiSuccess, cautiInsert>>

\* Cancel: setFormData(initialState)
CautiCancel ==
    /\ activeSection = "cauti-form"
    /\ formData # initialState
    /\ formData' = initialState
    /\ UNCHANGED <<suiteVars, authVars, envVars, taskVars, pageVars, permVars,
                   cautiLoading, cautiError, cautiSuccess, cautiInsert>>

\* handleSubmit up to its await (the submit button is disabled while
\* loading, and the browser holds the submit event back while a required
\* control is empty)
CautiHandleSubmit ==
    /\ activeSection = "cauti-form"
    /\ ~cautiLoading
    /\ CautiRequiredControls(formData)
    /\ cautiSuccess' = NoError
    /\ IF profile = NoProfile \/ user = NoUser
       THEN /\ cautiError' = E_NO_PROFILE
            /\ UNCHANGED <<cautiLoading, cautiInsert>>
       ELSE IF validateForm(formData) # NoError
       THEN /\ cautiError' = validateForm(formData)
            /\ UNCHANGED <<cautiLoading, cautiInsert>>
       ELSE /\ cautiError' = NoError
            /\ cautiLoading' = TRUE
            /\ cautiInsert' = [pending |-> TRUE, data |-> formData,
                               submitted_by |-> profile.id,
                               department |-> profile.department]
    /\ UNCHANGED <<suiteVars, authVars, envVars, taskVars, pageVars, permVars, formData>>

\* The insert succeeds: success message, form reset; finally
CautiInsertOk ==
    /\ cautiInsert.pending
    /\ cautiSuccess' = S_SUBMITTED
    /\ formData' = initialState
    /\ cautiLoading' = FALSE
    /\ cautiInsert' = NoInsert
    /\ UNCHANGED <<suiteVars, authVars, envVars, taskVars, pageVars, permVars, cautiError>>

\* The catch block alone, without the finally that follows it
CautiInsertErrorNoFinally ==
    /\ cautiInsert.pending
    /\ cautiError' = E_INSERT
    /\ cautiInsert' = NoInsert
    /\ UNCHANGED <<suiteVars, authVars, envVars, taskVars, pageVars, permVars, formData,
                   cautiSuccess, cautiLoading>>

\* The insert returns an error or throws: catch; finally
CautiInsertError ==
    /\ cautiInsert.pending
    /\ cautiError' = E_INSERT
    /\ cautiLoading' = FALSE
    /\ cautiInsert' = NoInsert
    /\ UNCHANGED <<suiteVars, authVars, envVars, taskVars, pageVars, permVars, formData,
                   cautiSuccess>>

---------------------------------------------------------------------------
(* ClabsiBundleForm: the bundle-entry form of each open tab, and the       *)
(* clabsi_bundle_entries table the tabs share.  Tab 1 is the page modelled *)
(* above; tab 2 is another browser signed in as OtherTabUser.  Dates are   *)
(* day indexes (a date input holds '' or a valid YYYY-MM-DD, which Date    *)
(* parses as UTC midnight); 0 stands for the empty input.  The discharge   *)
(* fields, department and nurse_name pass through to the payload unread    *)
(* and are left out.                                                       *)

Tabs == {1, 2}
OtherTabUser == "u1"
ShiftType == {"M", "A", "N"}
NoShift == ""
NoPatient == ""
NoDate == 0
MaxDate == 3
Dates == 1..MaxDate
MaxRows == 2
MaxSsiFetches == 2
PatientIds == {"P1", "P2"}
Components ==
    {"skinPrep2CHG", "dressingChangeDaily", "patencyLumens", "hubCareAlcohol",
     "ivTubingChangeDaily"}
MsPerDay == 1000 * 60 * 60 * 24

emptyBundleForm ==
    [patientId |-> NoPatient, admissionDate |-> NoDate, admissionShift |-> NoShift,
     dischargeDate |-> NoDate, entryDate |-> NoDate, shift |-> NoShift,
     skinPrep2CHG |-> FALSE, dressingChangeDaily |-> FALSE,
     patencyLumens |-> FALSE, hubCareAlcohol |-> FALSE,
     ivTubingChangeDaily |-> FALSE]

NoEntry ==
    [id |-> 0, patient_id |-> NoPatient, admission_date |-> NoDate,
     admission_shift |-> NoShift, discharge_date |-> NoDate,
     entry_date |-> NoDate, shift |-> NoShift,
     day_number |-> 0, skin_prep_2chg |-> FALSE,
     dressing_change_daily |-> FALSE, patency_lumens |-> FALSE,
     hub_care_alcohol |-> FALSE, iv_tubing_change_daily |-> FALSE,
     compliance_score |-> 0, created_by |-> NoUser]

NoModal == [type |-> "info", message |-> ""]
M_REQUIRED == [type |-> "error", message |-> "Please fill all required fields."]
M_DUPLICATE == [type |-> "error", message |-> "Entry for this shift on this date already exists."]
M_SAVED == [type |-> "success", message |-> "Entry saved successfully!"]
M_SAVE_ERROR == [type |-> "error", message |-> "Error saving entry. Please try again."]
M_LOAD_ERROR == [type |-> "error", message |-> "Failed to load saved entries."]

\* new Date(s).getTime(), relative to day 0
getTime(d) == d * MsPerDay

\* Math.ceil(a / b) for a >= 0, b > 0
MathCeilDiv(a, b) == (a + b - 1) \div b

\* Math.abs(a - b)
MathAbsDiff(a, b) == IF a >= b THEN a - b ELSE b - a

\* Math.round(num / den) for num >= 0, den > 0
MathRound(num, den) == (2 * num + den) \div (2 * den)

\* calculateDayNumber counting from 0
calculateDayNumberFromZero(fd) ==
    IF fd.admissionDate = NoDate \/ fd.entryDate = NoDate THEN 1
    ELSE MathCeilDiv(MathAbsDiff(getTime(fd.entryDate), getTime(fd.admissionDate)),
                     MsPerDay)

\* calculateDayNumber without Math.abs
calculateDayNumberSigned(fd) ==
    IF fd.admissionDate = NoDate \/ fd.entryDate = NoDate THEN 1
    ELSE IF fd.entryDate >= fd.admissionDate
         THEN MathCeilDiv(getTime(fd.entryDate) - getTime(fd.admissionDate),
                          MsPerDay) + 1
         ELSE 1

calculateDayNumber(fd) ==
    IF fd.admissionDate = NoDate \/ fd.entryDate = NoDate THEN 1
    ELSE MathCeilDiv(MathAbsDiff(getTime(fd.entryDate), getTime(fd.admissionDate)),
                     MsPerDay) + 1

isAfterDischarge(fd) ==
    IF fd.dischargeDate = NoDate \/ fd.entryDate = NoDate THEN FALSE
    ELSE getTime(fd.entryDate) > getTime(fd.dischargeDate)

isAdmissionShift(fd) ==
    fd.entryDate = fd.admissionDate /\ fd.shift = fd.admissionShift

\* getEnteredShifts matching the admission date in place of the entry date
getEnteredShiftsByAdmission(fd, saved) ==
    {e.shift : e \in {x \in saved : /\ x.patient_id = fd.patientId
                                    /\ x.entry_date = fd.admissionDate}}

getEnteredShifts(fd, saved) ==
    {e.shift : e \in {x \in saved : /\ x.patient_id = fd.patientId
                                    /\ x.entry_date = fd.entryDate}}

\* calculateCompliance with the day-one total on every day
calculateComplianceFive(fd) ==
    LET dayOne == calculateDayNumber(fd) = 1
        completed ==
            (IF dayOne /\ fd.skinPrep2CHG THEN 1 ELSE 0)
            + (IF fd.dressingChangeDaily THEN 1 ELSE 0)
            + (IF fd.patencyLumens THEN 1 ELSE 0)
            + (IF fd.hubCareAlcohol THEN 1 ELSE 0)
            + (IF fd.ivTubingChangeDaily THEN 1 ELSE 0)
    IN  MathRound(completed * 100, 5)

calculateCompliance(fd) ==
    LET dayOne == calculateDayNumber(fd) = 1
        total == IF dayOne THEN 5 ELSE 4
        completed ==
            (IF dayOne /\ fd.skinPrep2CHG THEN 1 ELSE 0)
            + (IF fd.dressingChangeDaily THEN 1 ELSE 0)
            + (IF fd.patencyLumens THEN 1 ELSE 0)
            + (IF fd.hubCareAlcohol THEN 1 ELSE 0)
            + (IF fd.ivTubingChangeDaily THEN 1 ELSE 0)
    IN  IF total > 0 THEN MathRound(completed * 100, total) ELSE 0

\* handleSubmit's required-field test
BundleMissingRequired(fd) ==
    \/ fd.patientId = NoPatient
    \/ fd.entryDate = NoDate
    \/ fd.shift = NoShift
    \/ fd.admissionDate = NoDate
    \/ fd.admissionShift = NoShift

\* user!.id as the tab sees it
BundleUser(t) == IF t = 1 THEN user ELSE OtherTabUser

\* handleSubmit's entryData
entryData(fd, t) ==
    [id |-> 0, patient_id |-> fd.patientId, admission_date |-> fd.admissionDate,
     admission_shift |-> fd.admissionShift, discharge_date |-> fd.dischargeDate,
     entry_date |-> fd.entryDate,
     shift |-> fd.shift, day_number |-> calculateDayNumber(fd),
     skin_prep_2chg |-> fd.skinPrep2CHG,
     dressing_change_daily |-> fd.dressingChangeDaily,
     patency_lumens |-> fd.patencyLumens,
     hub_care_alcohol |-> fd.hubCareAlcohol,
     iv_tubing_change_daily |-> fd.ivTubingChangeDaily,
     compliance_score |-> calculateCompliance(fd), created_by |-> BundleUser(t)]

\* The existingPatients entry for a patient id: savedEntries is ordered
\* newest first and the first entry of a patient wins
HasExistingPatient(saved, pid) == \E e \in saved : e.patient_id = pid

ExistingPatient(saved, pid) ==
    LET rs == {e \in saved : e.patient_id = pid}
    IN  CHOOSE e \in rs : \A f \in rs : f.id <= e.id

\* The effect on [formData.patientId, existingPatients, savedEntries]
EffectFormData(fd, saved) ==
    IF fd.patientId # NoPatient /\ HasExistingPatient(saved, fd.patientId)
    THEN [fd EXCEPT !.admissionDate = ExistingPatient(saved, fd.patientId).admission_date,
                    !.admissionShift = ExistingPatient(saved, fd.patientId).admission_shift,
                    !.dischargeDate = ExistingPatient(saved, fd.patientId).discharge_date]
    ELSE fd

EffectSelectedPatient(fd, sel, saved) ==
    IF fd.patientId = NoPatient THEN sel
    ELSE HasExistingPatient(saved, fd.patientId)

\* The tab's form is on screen
BundleMounted(t) ==
    t = 1 => (activeSection = "clabsi-bundle-form" /\ HomePageView = "dashboard")

NoBundleInsert == [pending |-> FALSE, entry |-> NoEntry]

\* Patient ID input
BundleSetPatientId(t, p) ==
    /\ BundleMounted(t)
    /\ bundleFormData[t].patientId # p
    /\ LET fd == [bundleFormData[t] EXCEPT !.patientId = p]
       IN  /\ bundleFormData' = [bundleFormData EXCEPT ![t] = EffectFormData(fd, savedEntries[t])]
           /\ selectedPatient' =
                 [selectedPatient EXCEPT
                    ![t] = EffectSelectedPatient(fd, selectedPatient[t], savedEntries[t])]
    /\ UNCHANGED <<nonBundleVars, savedEntries, bundleLoading,
                   bundleModalContent, bundleMountLoad, bundleReload, bundleInsert,
                   bundleTable, bundleNextId>>

\* Admission Date input (disabled once a known patient is selected)
BundleSetAdmissionDate(t, d) ==
    /\ BundleMounted(t)
    /\ ~selectedPatient[t]
    /\ bundleFormData[t].admissionDate # d
    /\ bundleFormData' = [bundleFormData EXCEPT ![t].admissionDate = d]
    /\ UNCHANGED <<nonBundleVars, selectedPatient, savedEntries,
                   bundleLoading, bundleModalContent, bundleMountLoad, bundleReload,
                   bundleInsert, bundleTable, bundleNextId>>

\* Admission Shift select (disabled once a known patient is selected)
BundleSetAdmissionShift(t, sh) ==
    /\ BundleMounted(t)
    /\ ~selectedPatient[t]
    /\ bundleFormData[t].admissionShift # sh
    /\ bundleFormData' = [bundleFormData EXCEPT ![t].admissionShift = sh]
    /\ UNCHANGED <<nonBundleVars, selectedPatient, savedEntries,
                   bundleLoading, bundleModalContent, bundleMountLoad, bundleReload,
                   bundleInsert, bundleTable, bundleNextId>>

\* Entry Date input
BundleSetEntryDate(t, d) ==
    /\ BundleMounted(t)
    /\ bundleFormData[t].entryDate # d
    /\ bundleFormData' = [bundleFormData EXCEPT ![t].entryDate = d]
    /\ UNCHANGED <<nonBundleVars, selectedPatient, savedEntries,
                   bundleLoading, bundleModalContent, bundleMountLoad, bundleReload,
                   bundleInsert, bundleTable, bundleNextId>>

\* Shift select
BundleSetShift(t, sh) ==
    /\ BundleMounted(t)
    /\ bundleFormData[t].shift # sh
    /\ bundleFormData' = [bundleFormData EXCEPT ![t].shift = sh]
    /\ UNCHANGED <<nonBundleVars, selectedPatient, savedEntries,
                   bundleLoading, bundleModalContent, bundleMountLoad, bundleReload,
                   bundleInsert, bundleTable, bundleNextId>>

\* A component checkbox: the section is rendered once patient, entry date
\* and shift are set, the skin-prep box only on the admission shift
BundleToggle(t, c, checked) ==
    /\ BundleMounted(t)
    /\ bundleFormData[t].patientId # NoPatient
    /\ bundleFormData[t].entryDate # NoDate
    /\ bundleFormData[t].shift # NoShift
    /\ ~isAfterDischarge(bundleFormData[t])
    /\ c = "skinPrep2CHG" => isAdmissionShift(bundleFormData[t])
    /\ bundleFormData[t][c] # checked
    /\ bundleFormData' = [bundleFormData EXCEPT ![t][c] = checked]
    /\ UNCHANGED <<nonBundleVars, selectedPatient, savedEntries,
                   bundleLoading, bundleModalContent, bundleMountLoad, bundleReload,
                   bundleInsert, bundleTable, bundleNextId>>

\* handleSubmit up to its await (the Save button is disabled while loading)
BundleHandleSubmit(t) ==
    /\ BundleMounted(t)
    /\ ~bundleLoading[t]
    /\ IF BundleMissingRequired(bundleFormData[t])
       THEN /\ bundleModalContent' = [bundleModalContent EXCEPT ![t] = M_REQUIRED]
            /\ UNCHANGED <<bundleLoading, bundleInsert>>
       ELSE IF bundleFormData[t].shift
                  \in getEnteredShifts(bundleFormData[t], savedEntries[t])
       THEN /\ bundleModalContent' = [bundleModalContent EXCEPT ![t] = M_DUPLICATE]
            /\ UNCHANGED <<bundleLoading, bundleInsert>>
       ELSE /\ bundleLoading' = [bundleLoading EXCEPT ![t] = TRUE]
            /\ bundleInsert' =
                  [bundleInsert EXCEPT
                     ![t] = [pending |-> TRUE, entry |-> entryData(bundleFormData[t], t)]]
            /\ UNCHANGED bundleModalContent
    /\ UNCHANGED <<nonBundleVars, bundleFormData, selectedPatient,
                   savedEntries, bundleMountLoad, bundleReload, bundleTable,
                   bundleNextId>>

\* BundleInsertOk storing the row in place of the rows of the table
BundleInsertOkReplacing(t) ==
    /\ bundleInsert[t].pending
    /\ bundleNextId <= MaxRows
    /\ bundleTable' = {[bundleInsert[t].entry EXCEPT !.id = bundleNextId]}
    /\ bundleNextId' = bundleNextId + 1
    /\ bundleModalContent' = [bundleModalContent EXCEPT ![t] = M_SAVED]
    /\ bundleFormData' =
          [bundleFormData EXCEPT
             ![t] = [@ EXCEPT !.entryDate = NoDate, !.shift = NoShift,
                              !.skinPrep2CHG = FALSE, !.dressingChangeDaily = FALSE,
                              !.patencyLumens = FALSE, !.hubCareAlcohol = FALSE,
                              !.ivTubingChangeDaily = FALSE]]
    /\ bundleReload' = [bundleReload EXCEPT ![t] = TRUE]
    /\ bundleInsert' = [bundleInsert EXCEPT ![t] = NoBundleInsert]
    /\ UNCHANGED <<nonBundleVars, selectedPatient, savedEntries,
                   bundleLoading, bundleMountLoad>>

\* The insert succeeds: the row is stored, the entry part of the form is
\* reset, and handleSubmit awaits loadSavedEntries
BundleInsertOk(t) ==
    /\ bundleInsert[t].pending
    /\ bundleNextId <= MaxRows
    /\ bundleTable' = bundleTable \cup {[bundleInsert[t].entry EXCEPT !.id = bundleNextId]}
    /\ bundleNextId' = bundleNextId + 1
    /\ bundleModalContent' = [bundleModalContent EXCEPT ![t] = M_SAVED]
    /\ bundleFormData' =
          [bundleFormData EXCEPT
             ![t] = [@ EXCEPT !.entryDate = NoDate, !.shift = NoShift,
                              !.skinPrep2CHG = FALSE, !.dressingChangeDaily = FALSE,
                              !.patencyLumens = FALSE, !.hubCareAlcohol = FALSE,
                              !.ivTubingChangeDaily = FALSE]]
    /\ bundleReload' = [bundleReload EXCEPT ![t] = TRUE]
    /\ bundleInsert' = [bundleInsert EXCEPT ![t] = NoBundleInsert]
    /\ UNCHANGED <<nonBundleVars, selectedPatient, savedEntries,
                   bundleLoading, bundleMountLoad>>

\* The insert returns an error or throws: catch; finally
BundleInsertError(t) ==
    /\ bundleInsert[t].pending
    /\ bundleModalContent' = [bundleModalContent EXCEPT ![t] = M_SAVE_ERROR]
    /\ bundleLoading' = [bundleLoading EXCEPT ![t] = FALSE]
    /\ bundleInsert' = [bundleInsert EXCEPT ![t] = NoBundleInsert]
    /\ UNCHANGED <<nonBundleVars, bundleFormData, selectedPatient,
                   savedEntries, bundleMountLoad, bundleReload, bundleTable,
                   bundleNextId>>

\* loadSavedEntries receives the rows: the one started on mount, or the one
\* handleSubmit awaits (whose return lets handleSubmit reach its finally)
BundleLoadOk(t, afterInsert) ==
    /\ IF afterInsert THEN bundleReload[t] ELSE bundleMountLoad[t]
    /\ savedEntries' = [savedEntries EXCEPT ![t] = bundleTable]
    /\ bundleFormData' =
          [bundleFormData EXCEPT ![t] = EffectFormData(bundleFormData[t], bundleTable)]
    /\ selectedPatient' =
          [selectedPatient EXCEPT
             ![t] = EffectSelectedPatient(bundleFormData[t], selectedPatient[t], bundleTable)]
    /\ IF afterInsert
       THEN /\ bundleReload' = [bundleReload EXCEPT ![t] = FALSE]
            /\ bundleLoading' = [bundleLoading EXCEPT ![t] = FALSE]
            /\ UNCHANGED bundleMountLoad
       ELSE /\ bundleMountLoad' = [bundleMountLoad EXCEPT ![t] = FALSE]
            /\ UNCHANGED <<bundleReload, bundleLoading>>
    /\ UNCHANGED <<nonBundleVars, bundleModalContent, bundleInsert,
                   bundleTable, bundleNextId>>

\* loadSavedEntries gets an error: the list is kept, a message is shown
BundleLoadFails(t, afterInsert) ==
    /\ IF afterInsert THEN bundleReload[t] ELSE bundleMountLoad[t]
    /\ bundleModalContent' = [bundleModalContent EXCEPT ![t] = M_LOAD_ERROR]
    /\ IF afterInsert
       THEN /\ bundleReload' = [bundleReload EXCEPT ![t] = FALSE]
            /\ bundleLoading' = [bundleLoading EXCEPT ![t] = FALSE]
            /\ UNCHANGED bundleMountLoad
       ELSE /\ bundleMountLoad' = [bundleMountLoad EXCEPT ![t] = FALSE]
            /\ UNCHANGED <<bundleReload, bundleLoading>>
    /\ UNCHANGED <<nonBundleVars, bundleFormData, selectedPatient,
                   savedEntries, bundleInsert, bundleTable, bundleNextId>>

---------------------------------------------------------------------------
(* MainDashboard: the forms it offers and the sections it shows.           *)

formTypes ==
    <<[id |-> "CLABSI", disabled |-> FALSE],
      [id |-> "CLABSI_BUNDLE", disabled |-> FALSE],
      [id |-> "CAUTI", disabled |-> FALSE],
      [id |-> "MDRO", disabled |-> FALSE],
      [id |-> "SSI", disabled |-> TRUE]>>

\* availableForms without the test of disabled
availableFormsWithDisabled(p) ==
    {formTypes[i].id : i \in {j \in DOMAIN formTypes : canAccessFormOf(p, formTypes[j].id)}}

\* availableForms (the ids) for the profile p
availableFormsOf(p) ==
    {formTypes[i].id :
        i \in {j \in DOMAIN formTypes :
                  ~formTypes[j].disabled /\ canAccessFormOf(p, formTypes[j].id)}}

availableForms == availableFormsOf(profile)

surgicalDepartments ==
    {"GENERAL_SURGERY", "OBSTETRICS_GYNECOLOGY", "ORTHOPEDIC", "CARDIAC_SURGERY",
     "NEUROSURGERY"}

canSeeSsiOf(p) ==
    p.role = "ADMIN" \/ (p.role = "IPC_FOCAL" /\ p.department \in surgicalDepartments)

canSeeSsi == canSeeSsiOf(profile)

\* The ids of navigationItems after the filter on available
navigationItems ==
    {"dashboard", "forms"}
        \cup (IF canSeeSsi THEN {"ssi-watchlist"} ELSE {})
        \cup (IF isIpcFocal \/ isAdmin THEN {"analytics"} ELSE {})
        \cup (IF isAdmin THEN {"admin-users"} ELSE {})

\* handleFormSelect's switch
SectionOfForm(formType) ==
    CASE formType = "CLABSI" -> "clabsi-form"
      [] formType = "CLABSI_BUNDLE" -> "clabsi-bundle-form"
      [] formType = "CAUTI" -> "cauti-form"
      [] formType = "MDRO" -> "mdr-form"
      [] OTHER -> "forms"

\* A navigation button or "My Profile": handleSectionChange(section)
HandleSectionChange(section) ==
    /\ HomePageView = "dashboard"
    /\ section \in navigationItems \cup {"profile"}
    /\ activeSection # section
    /\ activeSection' = section
    /\ UNCHANGED <<gateVars, cautiVars, bundleVars, formVars>>

\* An entry of the "Add New" dropdown (DashboardContent, FormsPage), which
\* lists availableForms: handleFormSelect(form.id)
HandleFormSelect(formType) ==
    /\ HomePageView = "dashboard"
    /\ activeSection \in {"dashboard", "forms"}
    /\ formType \in availableForms
    /\ activeSection' = SectionOfForm(formType)
    /\ UNCHANGED <<gateVars, cautiVars, bundleVars, formVars>>

\* What <main> renders: User Management only while isAdmin
SectionShown ==
    IF activeSection = "admin-users" /\ ~isAdmin THEN "none" ELSE activeSection

---------------------------------------------------------------------------
(* The forms validated by a zod schema through react-hook-form: MdrForm,   *)
(* ClabsiForm and SsiNewCaseForm.  The field values are the inputs of a    *)
(* submit; fields that no check below reads are not carried.               *)

\* The section of MainDashboard that is rendered
FormMounted(section) == activeSection = section /\ HomePageView = "dashboard"

NameTexts == {"", "Al", "Ali"}
IdTexts == {"", "H1"}
Length ==
    [t \in NameTexts \cup IdTexts |->
        CASE t = "" -> 0 [] t = "Al" -> 2 [] t = "H1" -> 2 [] t = "Ali" -> 3]

\* The value of a department select: its placeholder or a department
DepartmentInputs == {"", "ICU"}

NoStatus == [type |-> "null", message |-> "null"]
S_MDR_OK ==
    [type |-> "success", message |-> "MDR Surveillance Form submitted successfully!"]
S_CLABSI_OK ==
    [type |-> "success", message |-> "CLABSI Surveillance Form submitted successfully!"]
S_NOT_LOGGED_IN == [type |-> "error", message |-> "You must be logged in to submit."]
\* err.message of a failed insert
S_INSERT_ERROR == [type |-> "error", message |-> "insert failed"]

\* z.coerce.number(): Number(text) as a number
CoerceNumber(t) == [type |-> "number", text |-> IF t = "" THEN "0" ELSE t]

MdrInputs ==
    [hospital_id : IdTexts, full_name : NameTexts, age : AgeTexts, sex : GenderValues]

\* mdrSchema: the fields it rejects
mdrSchemaErrors(v) ==
    (IF Length[v.hospital_id] < 1 THEN {"hospital_id"} ELSE {})
    \cup (IF Length[v.full_name] < 3 THEN {"full_name"} ELSE {})
    \cup (IF NumberOf(v.age) < 0 THEN {"age"} ELSE {})
    \cup (IF v.sex \notin {"Male", "Female"} THEN {"sex"} ELSE {})

\* mdrSchema: the data it hands to onSubmit
mdrSchemaData(v) ==
    [hospital_id |-> v.hospital_id, full_name |-> v.full_name,
     age |-> CoerceNumber(v.age), sex |-> v.sex]

NoMdrInsert ==
    [pending |-> FALSE,
     payload |-> [hospital_id |-> "", full_name |-> "", age |-> AgeNumberZero,
                  sex |-> "", created_by |-> NoUser]]

\* handleSubmit(onSubmit) of MdrForm up to the insert's await.  The browser
\* holds the submit event back while the number input has a step mismatch.
MdrHandleSubmit(v) ==
    /\ FormMounted("mdr-form")
    /\ ~mdrLoading
    /\ StepMatches(v.age)
    /\ mdrErrors' = mdrSchemaErrors(v)
    /\ IF mdrSchemaErrors(v) # {}
       THEN UNCHANGED <<mdrLoading, mdrFormStatus, mdrInsert>>
       ELSE /\ mdrLoading' = TRUE
            /\ mdrFormStatus' = NoStatus
            /\ mdrInsert' =
                  [pending |-> TRUE,
                   payload |-> [hospital_id |-> v.hospital_id,
                                full_name |-> v.full_name,
                                age |-> mdrSchemaData(v).age,
                                sex |-> v.sex, created_by |-> user]]
    /\ UNCHANGED nonMdrVars

\* The insert returns without error
MdrInsertOk ==
    /\ mdrInsert.pending
    /\ mdrFormStatus' = S_MDR_OK
    /\ mdrLoading' = FALSE
    /\ mdrInsert' = NoMdrInsert
    /\ UNCHANGED <<nonMdrVars, mdrErrors>>

\* The insert returns an error or throws
MdrInsertError ==
    /\ mdrInsert.pending
    /\ mdrFormStatus' = S_INSERT_ERROR
    /\ mdrLoading' = FALSE
    /\ mdrInsert' = NoMdrInsert
    /\ UNCHANGED <<nonMdrVars, mdrErrors>>

ClabsiInputs ==
    [patient_name : NameTexts, hospital_id : IdTexts, department : DepartmentInputs]

\* clabsiSchema without the test of the department
clabsiSchemaErrorsNoDepartment(v) ==
    (IF Length[v.patient_name] < 3 THEN {"patient_name"} ELSE {})
    \cup (IF Length[v.hospital_id] < 1 THEN {"hospital_id"} ELSE {})

\* clabsiSchema: the fields it rejects
clabsiSchemaErrors(v) ==
    (IF Length[v.patient_name] < 3 THEN {"patient_name"} ELSE {})
    \cup (IF Length[v.hospital_id] < 1 THEN {"hospital_id"} ELSE {})
    \cup (IF v.department \notin DepartmentType THEN {"department"} ELSE {})

NoClabsiInsert ==
    [pending |-> FALSE,
     payload |-> [patient_name |-> "", hospital_id |-> "", department |-> "",
                  submitted_by |-> NoUser, review_status |-> "null"]]

\* handleSubmit(onSubmit) of ClabsiForm up to the insert's await
ClabsiHandleSubmit(v) ==
    /\ FormMounted("clabsi-form")
    /\ ~clabsiLoading
    /\ clabsiErrors' = clabsiSchemaErrors(v)
    /\ IF clabsiSchemaErrors(v) # {}
       THEN UNCHANGED <<clabsiLoading, clabsiFormStatus, clabsiInsert>>
       ELSE IF user = NoUser
       THEN /\ clabsiFormStatus' = S_NOT_LOGGED_IN
            /\ UNCHANGED <<clabsiLoading, clabsiInsert>>
       ELSE /\ clabsiLoading' = TRUE
            /\ clabsiFormStatus' = NoStatus
            /\ clabsiInsert' =
                  [pending |-> TRUE,
                   payload |-> [patient_name |-> v.patient_name,
                                hospital_id |-> v.hospital_id,
                                department |-> v.department,
                                submitted_by |-> user,
                                review_status |-> "pending"]]
    /\ UNCHANGED nonClabsiVars

ClabsiInsertOk ==
    /\ clabsiInsert.pending
    /\ clabsiFormStatus' = S_CLABSI_OK
    /\ clabsiLoading' = FALSE
    /\ clabsiInsert' = NoClabsiInsert
    /\ UNCHANGED <<nonClabsiVars, clabsiErrors>>

ClabsiInsertError ==
    /\ clabsiInsert.pending
    /\ clabsiFormStatus' = S_INSERT_ERROR
    /\ clabsiLoading' = FALSE
    /\ clabsiInsert' = NoClabsiInsert
    /\ UNCHANGED <<nonClabsiVars, clabsiErrors>>

\* The options of the priority select
PriorityOptions == {"MEDIUM", "HIGH", "LOW"}

\* The value of the surgical department select: its placeholder or one of
\* surgicalDepartments
SsiDepartmentInputs == {"", "GENERAL_SURGERY"}

SsiInputs ==
    [patient_name : NameTexts, hospital_id : IdTexts,
     department : SsiDepartmentInputs, priority : PriorityOptions]

\* ssiCaseSchema: the fields it rejects
ssiCaseSchemaErrors(v) ==
    (IF Length[v.patient_name] < 3 THEN {"patient_name"} ELSE {})
    \cup (IF Length[v.hospital_id] < 1 THEN {"hospital_id"} ELSE {})
    \cup (IF v.department \notin DepartmentType THEN {"department"} ELSE {})
    \cup (IF v.priority \notin {"HIGH", "MEDIUM", "LOW"} THEN {"priority"} ELSE {})

NoSsiInsert ==
    [pending |-> FALSE,
     payload |-> [patient_name |-> "", hospital_id |-> "", department |-> "",
                  priority |-> "", created_by |-> NoUser, current_status |-> "null"]]

A_CREATE_FAILED == "Failed to create case: insert failed"
E_FETCH == "fetch failed"

\* fetchSsiCases up to its await
FetchSsiCasesStart ==
    /\ ssiLoading' = TRUE
    /\ ssiError' = NoError
    /\ ssiFetches' = ssiFetches + 1

\* The Log New Suspected Case button
SsiOpenModal ==
    /\ FormMounted("ssi-watchlist")
    /\ ssiAlert = NoError
    /\ ~ssiModalOpen
    /\ ssiModalOpen' = TRUE
    /\ UNCHANGED <<nonSsiVars, ssiErrors, ssiSubmitting, ssiInsert, ssiAlert,
                   ssiLoading, ssiError, ssiFetches>>

\* The modal's close button
SsiCloseModal ==
    /\ FormMounted("ssi-watchlist")
    /\ ssiAlert = NoError
    /\ ssiModalOpen
    /\ ssiModalOpen' = FALSE
    /\ UNCHANGED <<nonSsiVars, ssiErrors, ssiSubmitting, ssiInsert, ssiAlert,
                   ssiLoading, ssiError, ssiFetches>>

\* handleSubmit(onSubmit) of SsiNewCaseForm up to the insert's await
SsiHandleSubmit(v) ==
    /\ FormMounted("ssi-watchlist")
    /\ ssiAlert = NoError
    /\ ssiModalOpen
    /\ ~ssiSubmitting
    /\ ssiErrors' = ssiCaseSchemaErrors(v)
    /\ IF ssiCaseSchemaErrors(v) # {}
       THEN UNCHANGED <<ssiSubmitting, ssiInsert>>
       ELSE /\ ssiSubmitting' = TRUE
            /\ ssiInsert' =
                  [pending |-> TRUE,
                   payload |-> [patient_name |-> v.patient_name,
                                hospital_id |-> v.hospital_id,
                                department |-> v.department,
                                priority |-> v.priority,
                                created_by |-> user,
                                current_status |-> "SUSPECTED"]]
    /\ UNCHANGED <<nonSsiVars, ssiModalOpen, ssiAlert, ssiLoading, ssiError, ssiFetches>>

\* The insert returns without error: onCaseAdded() starts fetchSsiCases,
\* onClose() closes the modal
SsiInsertOk ==
    /\ ssiInsert.pending
    /\ ssiFetches < MaxSsiFetches
    /\ FetchSsiCasesStart
    /\ ssiModalOpen' = FALSE
    /\ ssiSubmitting' = FALSE
    /\ ssiInsert' = NoSsiInsert
    /\ UNCHANGED <<nonSsiVars, ssiErrors, ssiAlert>>

\* The insert returns an error or throws: alert()
SsiInsertError ==
    /\ ssiInsert.pending
    /\ ssiAlert' = A_CREATE_FAILED
    /\ ssiSubmitting' = FALSE
    /\ ssiInsert' = NoSsiInsert
    /\ UNCHANGED <<nonSsiVars, ssiModalOpen, ssiErrors, ssiLoading, ssiError, ssiFetches>>

\* The user dismisses the alert
SsiDismissAlert ==
    /\ ssiAlert # NoError
    /\ ssiAlert' = NoError
    /\ UNCHANGED <<nonSsiVars, ssiModalOpen, ssiErrors, ssiSubmitting, ssiInsert,
                   ssiLoading, ssiError, ssiFetches>>

\* fetchSsiCases after its await, the select returned rows (the rows are
\* not carried)
FetchSsiCasesOk ==
    /\ ssiFetches > 0
    /\ ssiFetches' = ssiFetches - 1
    /\ ssiLoading' = FALSE
    /\ UNCHANGED <<nonSsiVars, ssiModalOpen, ssiErrors, ssiSubmitting, ssiInsert,
                   ssiAlert, ssiError>>

\* fetchSsiCases after its await, the select returned an error or threw
FetchSsiCasesFails ==
    /\ ssiFetches > 0
    /\ ssiFetches' = ssiFetches - 1
    /\ ssiError' = E_FETCH
    /\ ssiLoading' = FALSE
    /\ UNCHANGED <<nonSsiVars, ssiModalOpen, ssiErrors, ssiSubmitting, ssiInsert,
                   ssiAlert>>

---------------------------------------------------------------------------
(* useDashboardStats (types/clabsi.ts), which MainDashboard calls, and     *)
(* deleteUser / fetchUsers of UserManagement.                              *)

NumStatsCalls == 6
StatsDone == NumStatsCalls + 1

\* The count a select with { count: 'exact' } returns when it succeeds
RemoteCount == 1

\* count || 0 of a response: count is null when the call returned an error
CountOrZero(r) == IF r = "ok" THEN RemoteCount ELSE 0

ZeroStats ==
    [cautiCases |-> 0, clabsiCases |-> 0, ssiCases |-> 0, mdroCases |-> 0,
     thisMonth |-> 0, totalPatients |-> 0]

\* The object fetchStats passes to setStats
StatsOf(rs) ==
    [cautiCases |-> CountOrZero(rs[1]),
     clabsiCases |-> CountOrZero(rs[2]),
     ssiCases |-> 0,
     mdroCases |-> CountOrZero(rs[3]),
     thisMonth |-> CountOrZero(rs[4]) + CountOrZero(rs[5]) + CountOrZero(rs[6]),
     totalPatients |-> CountOrZero(rs[1]) + CountOrZero(rs[2]) + CountOrZero(rs[3])]

\* One of fetchStats' count calls returns, with a count or with an error
\* (which fetchStats does not read); after the last one setStats; finally
StatsCallReturns(outcome) ==
    /\ HomePageView = "dashboard"
    /\ statsPc <= NumStatsCalls
    /\ statsResponses' = [statsResponses EXCEPT ![statsPc] = outcome]
    /\ statsPc' = statsPc + 1
    /\ IF statsPc = NumStatsCalls
       THEN /\ dashboardStats' = StatsOf([statsResponses EXCEPT ![statsPc] = outcome])
            /\ statsLoading' = FALSE
       ELSE UNCHANGED <<dashboardStats, statsLoading>>
    /\ UNCHANGED <<nonStatsVars, statsThrown>>

\* One of fetchStats' count calls throws: catch (console.error); finally
StatsCallThrows ==
    /\ HomePageView = "dashboard"
    /\ statsPc <= NumStatsCalls
    /\ statsThrown' = TRUE
    /\ statsPc' = StatsDone
    /\ statsLoading' = FALSE
    /\ UNCHANGED <<nonStatsVars, statsResponses, dashboardStats>>

\* The user_profiles row the administrator acts on
TargetUser == "u2"

S_DELETED == "User deleted successfully!"
E_DELETE == "profileError.message"
E_LOAD_USERS == "Failed to load users"

\* fetchUsers up to its await
FetchUsersStart ==
    /\ umLoading' = TRUE
    /\ umError' = NoError

\* deleteUser, confirmed, up to the await of the profile delete.  The row's
\* button is on screen once the list is loaded and shows the row.
UmDeleteUser ==
    /\ FormMounted("admin-users")
    /\ isAdmin
    /\ umPc = "idle"
    /\ ~umLoading
    /\ umListed
    /\ umActionLoading' = "delete"
    /\ umError' = NoError
    /\ umSuccess' = NoError
    /\ umAuthError' = FALSE
    /\ umPc' = "profileDelete"
    /\ UNCHANGED <<nonUmVars, dbRow, umLoading, umListed>>

\* The profile delete returns without error; authUserId is the row's user_id.
\* Without one: setSuccess and fetchUsers up to its await.
UmProfileDeleteOk(authUserId) ==
    /\ umPc = "profileDelete"
    /\ dbRow' = [dbRow EXCEPT ![TargetUser] = "none"]
    /\ IF authUserId = NoUser
       THEN /\ umSuccess' = S_DELETED
            /\ FetchUsersStart
            /\ umPc' = "fetchUsers"
       ELSE /\ umPc' = "authDelete"
            /\ UNCHANGED <<umSuccess, umLoading, umError>>
    /\ UNCHANGED <<nonUmVars, umActionLoading, umAuthError, umListed>>

\* The profile delete returns an error or throws: catch; finally
UmProfileDeleteFails ==
    /\ umPc = "profileDelete"
    /\ umError' = E_DELETE
    /\ umActionLoading' = NoError
    /\ umPc' = "idle"
    /\ UNCHANGED <<nonUmVars, dbRow, umSuccess, umLoading, umAuthError, umListed>>

\* auth.admin.deleteUser returns (failed: it returned an error or threw,
\* which is only logged); setSuccess and fetchUsers up to its await
UmAuthDeleteReturns(failed) ==
    /\ umPc = "authDelete"
    /\ umAuthError' = failed
    /\ authUsers' = IF failed THEN authUsers ELSE authUsers \ {TargetUser}
    /\ umSuccess' = S_DELETED
    /\ FetchUsersStart
    /\ umPc' = "fetchUsers"
    /\ UNCHANGED <<nonUmBase, extraRow, lastWrite, umTarget, umForm, dbRow,
                   umActionLoading, umListed>>

\* fetchUsers (of the mount effect or of deleteUser) after its await, no
\* error; deleteUser's finally
UmFetchUsersOk ==
    /\ umPc \in {"mount", "fetchUsers"}
    /\ umListed' = (dbRow[TargetUser] # "none")
    /\ umLoading' = FALSE
    /\ umActionLoading' = NoError
    /\ umPc' = "idle"
    /\ UNCHANGED <<nonUmVars, dbRow, umError, umSuccess, umAuthError>>

\* fetchUsers after its await, the select returned an error or threw
UmFetchUsersFails ==
    /\ umPc \in {"mount", "fetchUsers"}
    /\ umError' = E_LOAD_USERS
    /\ umLoading' = FALSE
    /\ umActionLoading' = NoError
    /\ umPc' = "idle"
    /\ UNCHANGED <<nonUmVars, dbRow, umSuccess, umAuthError, umListed>>

\* The success alert's timer or Dismiss button
UmClearSuccess ==
    /\ umSuccess # NoError
    /\ umSuccess' = NoError
    /\ UNCHANGED <<nonUmVars, dbRow, umPc, umError, umActionLoading, umLoading,
                   umAuthError, umListed>>

\* The error alert's Dismiss button
UmClearError ==
    /\ umError # NoError
    /\ ~umLoading
    /\ umError' = NoError
    /\ UNCHANGED <<nonUmVars, dbRow, umPc, umSuccess, umActionLoading, umLoading,
                   umAuthError, umListed>>

---------------------------------------------------------------------------
(* UserManagement: createUser, createAuthForProfile, toggleUserStatus and  *)
(* updateUser.  A row of user_profiles is named by its profile id: p1 and  *)
(* p2 are the rows of u1 and u2, p3 is the row of a third person.          *)

ProfileIds == {"p1", "p2", "p3"}
UserOfRow == [k \in {"p1", "p2"} |-> IF k = "p1" THEN "u1" ELSE "u2"]
NewAuthId == "u3"

RowState(k) == IF k = "p3" THEN extraRow.state ELSE dbRow[UserOfRow[k]]
RowUserId(k) == IF k = "p3" THEN extraRow.user_id ELSE UserOfRow[k]

\* is_active as the row state
StateOfActive(active) == IF active THEN "active" ELSE "inactive"

\* update({is_active}).eq('id', k): no row, no change
RowsAfterUpdate(k, active) ==
    /\ dbRow' = IF k # "p3" /\ RowState(k) # "none"
                THEN [dbRow EXCEPT ![UserOfRow[k]] = StateOfActive(active)]
                ELSE dbRow
    /\ extraRow' = IF k = "p3" /\ RowState(k) # "none"
                   THEN [extraRow EXCEPT !.state = StateOfActive(active)]
                   ELSE extraRow

InsertColumns ==
    {"user_id", "email", "full_name", "employee_id", "phone", "department", "role",
     "is_active"}
UpdateColumns ==
    {"email", "full_name", "employee_id", "phone", "department", "role", "is_active",
     "updated_at"}
LinkColumns == {"user_id", "updated_at"}
ToggleColumns == {"is_active", "updated_at"}

E_REQUIRED_FIELDS == "Please fill in all required fields"
E_CREATE == "Failed to create user"
E_CREATE_AUTH == "Failed to create auth account"
E_TOGGLE == "Failed to update user status"
E_UPDATE == "Failed to update user"
S_CREATED == "User created successfully!"
S_AUTH_CREATED == "Auth account created!"
S_UPDATED == "User updated successfully!"

\* The list is on screen with its row buttons
UmListShown ==
    /\ FormMounted("admin-users")
    /\ isAdmin
    /\ umPc = "idle"
    /\ ~umLoading

nonUmNonTask ==
    <<authVars, session, initPc, initUid, signOutPc, loginPc, loginUid, pageVars,
      permVars, cautiVars, activeSection, bundleVars, mdrVars, clabsiVars, ssiVars,
      statsVars, fpVars, psVars>>

\* createUser up to the await of signUp (valid: the required fields are set;
\* active: the form's is_active box).  One further row is kept.
UmCreateUser(valid, active) ==
    /\ UmListShown
    /\ extraRow.state = "none"
    /\ IF ~valid
       THEN /\ umError' = E_REQUIRED_FIELDS
            /\ UNCHANGED <<umSuccess, umActionLoading, umPc, umTarget, umForm>>
       ELSE /\ umActionLoading' = "create"
            /\ umError' = NoError
            /\ umSuccess' = NoError
            /\ umPc' = "signUp"
            /\ umTarget' = "p3"
            /\ umForm' = active
    /\ UNCHANGED <<nonUmBase, dbRow, authUsers, extraRow, lastWrite, umLoading,
                   umAuthError, umListed>>

\* createAuthForProfile, confirmed, up to the await of signUp: the button of
\* a row without user_id
UmCreateAuthForProfile(k) ==
    /\ UmListShown
    /\ RowState(k) # "none"
    /\ RowUserId(k) = NoUser
    /\ umActionLoading' = "create-auth"
    /\ umError' = NoError
    /\ umSuccess' = NoError
    /\ umPc' = "authSignUp"
    /\ umTarget' = k
    /\ UNCHANGED <<nonUmBase, dbRow, authUsers, extraRow, lastWrite, umForm, umLoading,
                   umAuthError, umListed>>

\* signUp returns.  ok: the identity exists now, and the profile insert
\* (createUser) or the update of user_id (createAuthForProfile) is sent.
\* Otherwise (an error, no user, a throw): catch; finally.
UmSignUpReturns(ok) ==
    /\ umPc \in {"signUp", "authSignUp"}
    /\ IF ok
       THEN /\ NewAuthId \notin authUsers
            /\ authUsers' = authUsers \cup {NewAuthId}
            /\ lastWrite' =
                  IF umPc = "signUp"
                  THEN [by |-> "createUser", row |-> umTarget,
                        columns |-> InsertColumns, user |-> user]
                  ELSE [by |-> "createAuthForProfile", row |-> umTarget,
                        columns |-> LinkColumns, user |-> user]
            /\ umPc' = IF umPc = "signUp" THEN "profileInsert" ELSE "linkUpdate"
            /\ UNCHANGED <<umError, umActionLoading>>
       ELSE /\ umError' = IF umPc = "signUp" THEN E_CREATE ELSE E_CREATE_AUTH
            /\ umActionLoading' = NoError
            /\ umPc' = "idle"
            /\ UNCHANGED <<authUsers, lastWrite>>
    /\ UNCHANGED <<nonUmBase, dbRow, extraRow, umTarget, umForm, umSuccess, umLoading,
                   umAuthError, umListed>>

\* The profile insert returns without error: fetchUsers up to its await
UmProfileInsertOk ==
    /\ umPc = "profileInsert"
    /\ extraRow.state = "none"
    /\ extraRow' = [state |-> StateOfActive(umForm), user_id |-> NewAuthId]
    /\ FetchUsersStart
    /\ umPc' = "fetchCreated"
    /\ UNCHANGED <<nonUmBase, dbRow, authUsers, lastWrite, umTarget, umForm, umSuccess,
                   umActionLoading, umAuthError, umListed>>

\* The update of user_id returns without error: setSuccess; fetchUsers up to
\* its await
UmLinkUpdateOk ==
    /\ umPc = "linkUpdate"
    /\ extraRow' = IF extraRow.state # "none"
                   THEN [extraRow EXCEPT !.user_id = NewAuthId] ELSE extraRow
    /\ umSuccess' = S_AUTH_CREATED
    /\ FetchUsersStart
    /\ umPc' = "fetchUsers"
    /\ UNCHANGED <<nonUmBase, dbRow, authUsers, lastWrite, umTarget, umForm,
                   umActionLoading, umAuthError, umListed>>

\* The profile insert or the update of user_id returns an error: the
\* handler awaits auth.admin.deleteUser of the identity it created
UmSecondStepFails ==
    /\ umPc \in {"profileInsert", "linkUpdate"}
    /\ umPc' = "rollback"
    /\ UNCHANGED <<nonUmBase, dbRow, acctVars, umError, umSuccess, umActionLoading,
                   umLoading, umAuthError, umListed>>

\* auth.admin.deleteUser returns (failed: it returned an error, which is not
\* looked at, or threw); throw; catch; finally
UmRollbackReturns(failed) ==
    /\ umPc = "rollback"
    /\ authUsers' = IF failed THEN authUsers ELSE authUsers \ {NewAuthId}
    /\ umError' = IF umTarget = "p3" /\ extraRow.state = "none"
                  THEN E_CREATE ELSE E_CREATE_AUTH
    /\ umActionLoading' = NoError
    /\ umPc' = "idle"
    /\ UNCHANGED <<nonUmBase, dbRow, extraRow, lastWrite, umTarget, umForm, umSuccess,
                   umLoading, umAuthError, umListed>>

\* fetchUsers of createUser returns: the form is reset, the modal closed,
\* setSuccess; finally
UmFetchCreatedReturns(ok) ==
    /\ umPc = "fetchCreated"
    /\ umError' = IF ok THEN umError ELSE E_LOAD_USERS
    /\ umListed' = IF ok THEN dbRow[TargetUser] # "none" ELSE umListed
    /\ umLoading' = FALSE
    /\ umSuccess' = S_CREATED
    /\ umActionLoading' = NoError
    /\ umPc' = "idle"
    /\ UNCHANGED <<nonUmBase, dbRow, acctVars, umAuthError>>

\* The status button of a row (disabled on the administrator's own row):
\* toggleUserStatus up to its await
UmToggleUserStatus(k) ==
    /\ UmListShown
    /\ RowState(k) # "none"
    /\ k # profile.id
    /\ umActionLoading' = "toggle"
    /\ umError' = NoError
    /\ umSuccess' = NoError
    /\ umPc' = "toggle"
    /\ umTarget' = k
    /\ umForm' = ~(RowState(k) = "active")
    /\ lastWrite' = [by |-> "toggleUserStatus", row |-> k, columns |-> ToggleColumns,
                     user |-> user]
    /\ UNCHANGED <<nonUmBase, dbRow, authUsers, extraRow, umLoading, umAuthError,
                   umListed>>

\* The update of is_active returns without error: fetchUsers up to its await
UmToggleOk ==
    /\ umPc = "toggle"
    /\ RowsAfterUpdate(umTarget, umForm)
    /\ FetchUsersStart
    /\ umPc' = "fetchUsers"
    /\ UNCHANGED <<nonUmBase, authUsers, lastWrite, umTarget, umForm, umSuccess,
                   umActionLoading, umAuthError, umListed>>

\* The update of toggleUserStatus or updateUser returns an error or throws:
\* catch; finally
UmUpdateFails ==
    /\ umPc \in {"toggle", "userUpdate"}
    /\ umError' = IF umPc = "toggle" THEN E_TOGGLE ELSE E_UPDATE
    /\ umActionLoading' = NoError
    /\ umPc' = "idle"
    /\ UNCHANGED <<nonUmBase, dbRow, acctVars, umSuccess, umLoading, umAuthError,
                   umListed>>

\* The edit button of a row (every row has one), the is_active box of the
\* modal set to active, and Update User: updateUser up to the await of the
\* profile update.  The e-mail is left as it is.
UmUpdateUser(k, active) ==
    /\ UmListShown
    /\ RowState(k) # "none"
    /\ umActionLoading' = "update"
    /\ umError' = NoError
    /\ umSuccess' = NoError
    /\ umPc' = "userUpdate"
    /\ umTarget' = k
    /\ umForm' = active
    /\ lastWrite' = [by |-> "updateUser", row |-> k, columns |-> UpdateColumns,
                     user |-> user]
    /\ UNCHANGED <<nonUmBase, dbRow, authUsers, extraRow, umLoading, umAuthError,
                   umListed>>

\* The profile update returns without error: setSuccess; fetchUsers up to
\* its await
UmUserUpdateOk ==
    /\ umPc = "userUpdate"
    /\ RowsAfterUpdate(umTarget, umForm)
    /\ umSuccess' = S_UPDATED
    /\ FetchUsersStart
    /\ umPc' = "fetchUpdated"
    /\ UNCHANGED <<nonUmBase, authUsers, lastWrite, umTarget, umForm, umActionLoading,
                   umAuthError, umListed>>

\* fetchUsers of updateUser returns; for the administrator's own row
\* refreshProfile is awaited, otherwise the modal is closed; finally
UmFetchUpdatedReturns(ok) ==
    /\ umPc = "fetchUpdated"
    /\ umError' = IF ok THEN umError ELSE E_LOAD_USERS
    /\ umListed' = IF ok THEN dbRow[TargetUser] # "none" ELSE umListed
    /\ umLoading' = FALSE
    /\ IF umTarget = profile.id /\ user # NoUser
       THEN /\ FreeSlots # {}
            /\ StartFetch("refresh", user)
            /\ umPc' = "refreshOwn"
            /\ UNCHANGED umActionLoading
       ELSE /\ umActionLoading' = NoError
            /\ umPc' = "idle"
            /\ UNCHANGED fetches
    /\ UNCHANGED <<nonUmNonTask, dbRow, acctVars, umSuccess, umAuthError>>

\* refreshProfile has returned: the modal is closed; finally
UmUpdateFinish ==
    /\ umPc = "refreshOwn"
    /\ \A i \in Slots : fetches[i].kind # "refresh"
    /\ umActionLoading' = NoError
    /\ umPc' = "idle"
    /\ UNCHANGED <<nonUmBase, dbRow, acctVars, umError, umSuccess, umLoading,
                   umAuthError, umListed>>

---------------------------------------------------------------------------
(* ProfileSection: handleProfileSubmit.                                    *)

ProfileColumns == {"full_name", "phone", "employee_id", "updated_at"}
E_FULL_NAME == "Full name is required"
E_PROFILE_UPDATE == "Failed to update profile"
S_PROFILE_UPDATED == "Profile updated successfully!"

nonPsNonTask ==
    <<authVars, envVars, initPc, initUid, signOutPc, loginPc, loginUid, pageVars,
      permVars, cautiVars, activeSection, bundleVars, mdrVars, clabsiVars, ssiVars,
      statsVars, umVars, fpVars>>

\* handleProfileSubmit up to the await of the update (nameGiven: the full
\* name is not blank; the e-mail is left as it is)
PsHandleProfileSubmit(nameGiven) ==
    /\ FormMounted("profile")
    /\ psPc = "idle"
    /\ psSuccess' = NoError
    /\ IF ~nameGiven
       THEN /\ psError' = E_FULL_NAME
            /\ UNCHANGED <<psPc, psLoading, lastWrite>>
       ELSE /\ psError' = NoError
            /\ psLoading' = TRUE
            /\ psPc' = "update"
            /\ lastWrite' = [by |-> "handleProfileSubmit", row |-> profile.id,
                             columns |-> ProfileColumns, user |-> user]
    /\ UNCHANGED <<nonPsNonTask, fetches, authUsers, extraRow, umTarget, umForm>>

\* The update returns without error: refreshProfile up to its await
PsUpdateOk ==
    /\ psPc = "update"
    /\ IF user # NoUser
       THEN FreeSlots # {} /\ StartFetch("refresh", user)
       ELSE UNCHANGED fetches
    /\ psPc' = "refresh"
    /\ UNCHANGED <<nonPsNonTask, acctVars, psLoading, psError, psSuccess>>

\* The update returns an error or throws: catch; finally
PsUpdateFails ==
    /\ psPc = "update"
    /\ psError' = E_PROFILE_UPDATE
    /\ psLoading' = FALSE
    /\ psPc' = "idle"
    /\ UNCHANGED <<nonPsNonTask, fetches, acctVars, psSuccess>>

\* refreshProfile has returned: setSuccess; finally
PsRefreshReturned ==
    /\ psPc = "refresh"
    /\ \A i \in Slots : fetches[i].kind # "refresh"
    /\ psSuccess' = S_PROFILE_UPDATED
    /\ psLoading' = FALSE
    /\ psPc' = "idle"
    /\ UNCHANGED <<nonPsNonTask, fetches, acctVars, psError>>

---------------------------------------------------------------------------
(* FormsPage: the tab bar and the fetchAllEntries effect on [activeTab].   *)

formTabs == {"CLABSI", "CLABSI_BUNDLE", "CAUTI", "MDRO"}
MaxFpFetches == 2
E_FP_FETCH == "Failed to load entries."

nonFpVars ==
    <<gateVars, cautiVars, activeSection, bundleVars, mdrVars, clabsiVars, ssiVars,
      statsVars, umVars, acctVars, psVars>>

\* The sequence q without its i-th element
RemoveAt(q, i) == [j \in 1..(Len(q) - 1) |-> IF j < i THEN q[j] ELSE q[j + 1]]

\* A tab button: setActiveTab(tab.id); the effect runs fetchAllEntries up to
\* its await
FpSetActiveTab(tab) ==
    /\ FormMounted("forms")
    /\ tab # fpActiveTab
    /\ Len(fpFetches) < MaxFpFetches
    /\ fpActiveTab' = tab
    /\ fpLoading' = TRUE
    /\ fpError' = NoError
    /\ fpFetches' = Append(fpFetches, tab)
    /\ UNCHANGED <<nonFpVars, fpEntries>>

\* The i-th fetch in flight returns its rows: setEntries; finally
FpFetchOk(i) ==
    /\ i \in DOMAIN fpFetches
    /\ fpEntries' = fpFetches[i]
    /\ fpLoading' = FALSE
    /\ fpFetches' = RemoveAt(fpFetches, i)
    /\ UNCHANGED <<nonFpVars, fpActiveTab, fpError>>

\* The i-th fetch in flight returns an error or throws: catch; finally
FpFetchFails(i) ==
    /\ i \in DOMAIN fpFetches
    /\ fpError' = E_FP_FETCH
    /\ fpLoading' = FALSE
    /\ fpFetches' = RemoveAt(fpFetches, i)
    /\ UNCHANGED <<nonFpVars, fpActiveTab, fpEntries>>

---------------------------------------------------------------------------
(* A permission query: canAccessForm(formType) as the dashboard calls it.  *)

CheckAccess(formType) ==
    /\ permForm' = formType
    /\ permResult' = canAccessForm(formType)
    /\ UNCHANGED <<suiteVars, authVars, envVars, taskVars, pageVars, cautiVars>>

---------------------------------------------------------------------------
(* Specifications *)

InitPerm == permForm = NoForm /\ permResult = FALSE

InitCauti ==
    /\ formData = initialState
    /\ cautiLoading = FALSE
    /\ cautiError = NoError
    /\ cautiSuccess = NoError
    /\ cautiInsert = NoInsert

\* No bundle form open, an empty clabsi_bundle_entries table
InitBundle ==
    /\ bundleFormData = [t \in Tabs |-> emptyBundleForm]
    /\ selectedPatient = [t \in Tabs |-> FALSE]
    /\ savedEntries = [t \in Tabs |-> {}]
    /\ bundleLoading = [t \in Tabs |-> FALSE]
    /\ bundleModalContent = [t \in Tabs |-> NoModal]
    /\ bundleMountLoad = [t \in Tabs |-> FALSE]
    /\ bundleReload = [t \in Tabs |-> FALSE]
    /\ bundleInsert = [t \in Tabs |-> NoBundleInsert]
    /\ bundleTable = {}
    /\ bundleNextId = 1

\* useDashboardStats awaiting its first call; UserManagement not opened
\* Every user has an auth identity; no further profile row; nothing written
AuthIds == Users \cup {"u3"}
NoExtraRow == [state |-> "none", user_id |-> NoUser]
NoWrite == [by |-> "none", row |-> "none", columns |-> {}, user |-> NoUser]

InitAccounts ==
    /\ authUsers = Users
    /\ extraRow = NoExtraRow
    /\ lastWrite = NoWrite
    /\ umTarget = "none"
    /\ umForm = TRUE

\* FormsPage not mounted: its useState initial values
InitFormsPage ==
    /\ fpActiveTab = "CLABSI"
    /\ fpEntries = "none"
    /\ fpLoading = TRUE
    /\ fpError = NoError
    /\ fpFetches = <<>>

\* ProfileSection idle
InitProfileSection ==
    /\ psPc = "idle"
    /\ psLoading = FALSE
    /\ psError = NoError
    /\ psSuccess = NoError

InitStatsUsers ==
    /\ statsPc = 1
    /\ statsResponses = [k \in 1..NumStatsCalls |-> "none"]
    /\ statsThrown = FALSE
    /\ dashboardStats = ZeroStats
    /\ statsLoading = TRUE
    /\ umPc = "idle"
    /\ umError = NoError
    /\ umSuccess = NoError
    /\ umActionLoading = NoError
    /\ umLoading = TRUE
    /\ umAuthError = FALSE
    /\ umListed = FALSE

InitAdmin ==
    /\ InitStatsUsers
    /\ InitAccounts
    /\ InitFormsPage
    /\ InitProfileSection

\* No zod form touched, the watchlist not loading
InitZodForms ==
    /\ mdrLoading = FALSE
    /\ mdrFormStatus = NoStatus
    /\ mdrErrors = {}
    /\ mdrInsert = NoMdrInsert
    /\ clabsiLoading = FALSE
    /\ clabsiFormStatus = NoStatus
    /\ clabsiErrors = {}
    /\ clabsiInsert = NoClabsiInsert
    /\ ssiModalOpen = FALSE
    /\ ssiErrors = {}
    /\ ssiSubmitting = FALSE
    /\ ssiInsert = NoSsiInsert
    /\ ssiAlert = NoError
    /\ ssiLoading = TRUE
    /\ ssiError = NoError
    /\ ssiFetches = 0

InitForms == InitZodForms /\ InitAdmin

\* MainDashboard opens on its dashboard section
InitSuite ==
    /\ activeSection = "dashboard"
    /\ InitBundle
    /\ InitForms

InitEnv ==
    /\ session \in Users \cup {NoUser}
    /\ dbRow \in [Users -> RowStates]

\* A settled gate: signed out, or signed in with the profile p
SettledGate(u, p) ==
    /\ user = u
    /\ profile = p
    /\ loading = FALSE
    /\ error = NoError
    /\ initialized = TRUE
    /\ session = u
    /\ dbRow = [x \in Users |-> "active"]
    /\ initPc = "done"
    /\ initUid = NoUser
    /\ signOutPc = "idle"
    /\ fetches = [i \in Slots |-> IdleFetch]
    /\ loginPc = "idle"
    /\ loginUid = NoUser
    /\ route = "/"
    /\ shouldRedirect = FALSE
    /\ timer = FALSE

\* The page as first loaded, on either route
Init ==
    /\ \E r \in {"/", "/login"} : FreshPage(r)
    /\ InitEnv
    /\ InitPerm
    /\ InitCauti
    /\ InitSuite

Next ==
    \/ InitializeAuthStart
    \/ InitializeAuthSession
    \/ InitializeAuthNoSession
    \/ InitializeAuthThrows
    \/ InitializeAuthFetch
    \/ SignedInEvent
    \/ \E i \in Slots : SignedInResolve(i)
    \/ SignedOutEvent
    \/ TokenRefreshedEvent
    \/ RefreshProfileStart
    \/ \E i \in Slots : RefreshProfileResolve(i)
    \/ SignOutStart
    \/ SignOutRemoteOk
    \/ SignOutFinish
    \/ \E u \in Users : LoginSignIn(u)
    \/ LoginCheckActive
    \/ LoginCheckMissing
    \/ LoginSignOut
    \/ LoginSignOutFails
    \/ \E u \in Users, st \in RowStates : AdminSetRow(u, st)
    \/ TimerFire
    \/ BackToLogin
    \/ Retry

Spec == Init /\ [][Next]_vars

\* The same, where a timer that stays armed fires and every call that is
\* awaited returns
AuthFairness ==
    /\ WF_vars(TimerFire)
    /\ WF_vars(InitializeAuthStart)
    /\ WF_vars(InitializeAuthSession \/ InitializeAuthNoSession \/ InitializeAuthThrows)
    /\ WF_vars(InitializeAuthFetch)
    /\ \A i \in Slots : WF_vars(SignedInResolve(i))
    /\ \A i \in Slots : WF_vars(RefreshProfileResolve(i))
    /\ WF_vars(SignOutFinish)
    /\ WF_vars(LoginCheckActive \/ LoginCheckMissing)
    /\ WF_vars(LoginSignOut \/ LoginSignOutFails)

SpecLive == Init /\ [][Next]_vars /\ AuthFairness

\* Every profile (and none) put to every permission query
AllProfiles ==
    {[id |-> "p1", user_id |-> "u1", role |-> r, department |-> d, is_active |-> TRUE] :
        r \in UserRole, d \in DepartmentType}

InitPermSpec ==
    /\ \/ SettledGate(NoUser, NoProfile)
       \/ \E p \in AllProfiles : SettledGate("u1", p)
    /\ InitPerm
    /\ InitCauti
    /\ InitSuite

NextPerm == \E formType \in FormType : CheckAccess(formType)

SpecPerm == InitPermSpec /\ [][NextPerm]_vars

\* The CAUTI form under a settled gate, with and without a loaded profile,
\* its hospital id, ward and sex already entered
InitCautiSpec ==
    /\ \/ SettledGate(NoUser, NoProfile)
       \/ SettledGate("u2", ProfileRow("u2", "active"))
    /\ InitPerm
    /\ formData = [initialState EXCEPT !.hospital_id = "x", !.ward_bed_number = "x",
                                       !.gender = "Male"]
    /\ cautiLoading = FALSE
    /\ cautiError = NoError
    /\ cautiSuccess = NoError
    /\ cautiInsert = NoInsert
    /\ activeSection = "cauti-form"
    /\ InitBundle
    /\ InitForms

NextCauti ==
    \/ \E name \in {"patient_name", "catheter_insertion_date"}, value \in TextValues :
            CautiHandleChangeText(name, value)
    \/ CautiHandleChangeText("age", AgeString("45"))
    \/ \E section \in {"symptoms", "laboratory_findings"},
          key \in SymptomKeys \cup LabKeys, checked \in BOOLEAN :
            CautiHandleChangeCheckbox(section, key, checked)
    \/ CautiCancel
    \/ CautiHandleSubmit
    \/ CautiInsertOk
    \/ CautiInsertError

SpecCauti == InitCautiSpec /\ [][NextCauti]_vars

\* The bundle form of one tab, opened with any form content over a table
\* that is empty or holds one earlier entry; the list is still loading
BundleInputs ==
    [patientId : {NoPatient, "P1"}, admissionDate : 0..MaxDate,
     admissionShift : {"M"}, dischargeDate : {NoDate}, entryDate : 0..MaxDate, shift : {NoShift, "M"},
     skinPrep2CHG : BOOLEAN, dressingChangeDaily : BOOLEAN,
     patencyLumens : BOOLEAN, hubCareAlcohol : BOOLEAN,
     ivTubingChangeDaily : BOOLEAN]

SeedForm ==
    [emptyBundleForm EXCEPT !.patientId = "P1", !.admissionDate = 1,
                            !.admissionShift = "M", !.entryDate = 2, !.shift = "M",
                            !.dressingChangeDaily = TRUE]

SeedRow == [entryData(SeedForm, 2) EXCEPT !.id = 1]

InitBundleSpec ==
    /\ SettledGate("u2", ProfileRow("u2", "active"))
    /\ InitPerm
    /\ InitCauti
    /\ activeSection = "clabsi-bundle-form"
    /\ InitForms
    /\ \E fd \in BundleInputs :
          bundleFormData = [t \in Tabs |-> IF t = 1 THEN fd ELSE emptyBundleForm]
    /\ selectedPatient = [t \in Tabs |-> FALSE]
    /\ savedEntries = [t \in Tabs |-> {}]
    /\ bundleLoading = [t \in Tabs |-> FALSE]
    /\ bundleModalContent = [t \in Tabs |-> NoModal]
    /\ bundleMountLoad = [t \in Tabs |-> t = 1]
    /\ bundleReload = [t \in Tabs |-> FALSE]
    /\ bundleInsert = [t \in Tabs |-> NoBundleInsert]
    /\ \/ bundleTable = {} /\ bundleNextId = 1
       \/ bundleTable = {SeedRow} /\ bundleNextId = 2

NextBundle ==
    \/ BundleHandleSubmit(1)
    \/ BundleInsertOk(1)
    \/ BundleInsertError(1)
    \/ \E afterInsert \in BOOLEAN : BundleLoadOk(1, afterInsert)
    \/ \E afterInsert \in BOOLEAN : BundleLoadFails(1, afterInsert)

SpecBundle == InitBundleSpec /\ [][NextBundle]_vars

\* The bundle form opened empty over a table whose one entry belongs to a
\* patient discharged on the day of that entry
DischargedRow == [SeedRow EXCEPT !.discharge_date = SeedRow.entry_date]

InitDischarge ==
    /\ SettledGate("u2", ProfileRow("u2", "active"))
    /\ InitPerm
    /\ InitCauti
    /\ activeSection = "clabsi-bundle-form"
    /\ InitForms
    /\ bundleFormData = [t \in Tabs |-> emptyBundleForm]
    /\ selectedPatient = [t \in Tabs |-> FALSE]
    /\ savedEntries = [t \in Tabs |-> {}]
    /\ bundleLoading = [t \in Tabs |-> FALSE]
    /\ bundleModalContent = [t \in Tabs |-> NoModal]
    /\ bundleMountLoad = [t \in Tabs |-> t = 1]
    /\ bundleReload = [t \in Tabs |-> FALSE]
    /\ bundleInsert = [t \in Tabs |-> NoBundleInsert]
    /\ bundleTable = {DischargedRow}
    /\ bundleNextId = 2

NextDischarge ==
    \/ \E p \in {NoPatient, "P1"} : BundleSetPatientId(1, p)
    \/ \E d \in {SeedRow.entry_date, SeedRow.entry_date + 1} : BundleSetEntryDate(1, d)
    \/ BundleSetShift(1, "N")
    \/ \E checked \in BOOLEAN : BundleToggle(1, "dressingChangeDaily", checked)
    \/ BundleHandleSubmit(1)
    \/ BundleInsertOk(1)
    \/ BundleInsertError(1)
    \/ \E afterInsert \in BOOLEAN : BundleLoadOk(1, afterInsert)
    \/ \E afterInsert \in BOOLEAN : BundleLoadFails(1, afterInsert)

SpecDischarge == InitDischarge /\ [][NextDischarge]_vars

\* MainDashboard on one of its form sections with the form filled in, while
\* the session is refreshed or replaced
FormSections ==
    {"cauti-form", "clabsi-form", "mdr-form", "ssi-watchlist", "clabsi-bundle-form"}

ValidCautiForm ==
    [initialState EXCEPT !.patient_name = "x", !.hospital_id = "x",
                         !.ward_bed_number = "x", !.catheter_insertion_date = "x",
                         !.age = AgeString("45"), !.gender = "Male",
                         !.symptoms["fever"] = TRUE,
                         !.laboratory_findings["iuc_specimen"] = TRUE]

CautiSamples ==
    {[ValidCautiForm EXCEPT !.age = a] :
        a \in {AgeNumberZero} \cup {AgeString(t) : t \in AgeTexts}}
    \cup {[ValidCautiForm EXCEPT !.gender = g] : g \in {NoGender} \cup GenderValues}
    \cup {[ValidCautiForm EXCEPT !.symptoms["fever"] = FALSE],
          [ValidCautiForm EXCEPT !.laboratory_findings["iuc_specimen"] = FALSE],
          [ValidCautiForm EXCEPT !.patient_name = ""]}

BundleSamples ==
    {SeedForm, [SeedForm EXCEPT !.shift = NoShift],
     [SeedForm EXCEPT !.entryDate = 1, !.skinPrep2CHG = TRUE]}

InitFormsSpec ==
    /\ SettledGate("u2", ProfileRow("u2", "active"))
    /\ InitPerm
    /\ activeSection \in FormSections
    /\ formData \in (IF activeSection = "cauti-form" THEN CautiSamples ELSE {initialState})
    /\ cautiLoading = FALSE
    /\ cautiError = NoError
    /\ cautiSuccess = NoError
    /\ cautiInsert = NoInsert
    /\ \E fd \in (IF activeSection = "clabsi-bundle-form" THEN BundleSamples
                   ELSE {emptyBundleForm}) :
          bundleFormData = [t \in Tabs |-> IF t = 1 THEN fd ELSE emptyBundleForm]
    /\ selectedPatient = [t \in Tabs |-> FALSE]
    /\ savedEntries = [t \in Tabs |-> {}]
    /\ bundleLoading = [t \in Tabs |-> FALSE]
    /\ bundleModalContent = [t \in Tabs |-> NoModal]
    /\ bundleMountLoad = [t \in Tabs |-> t = 1 /\ activeSection = "clabsi-bundle-form"]
    /\ bundleReload = [t \in Tabs |-> FALSE]
    /\ bundleInsert = [t \in Tabs |-> NoBundleInsert]
    /\ bundleTable = {SeedRow}
    /\ bundleNextId = 2
    /\ mdrLoading = FALSE
    /\ mdrFormStatus = NoStatus
    /\ mdrErrors = {}
    /\ mdrInsert = NoMdrInsert
    /\ clabsiLoading = FALSE
    /\ clabsiFormStatus = NoStatus
    /\ clabsiErrors = {}
    /\ clabsiInsert = NoClabsiInsert
    /\ ssiModalOpen = FALSE
    /\ ssiErrors = {}
    /\ ssiSubmitting = FALSE
    /\ ssiInsert = NoSsiInsert
    /\ ssiAlert = NoError
    /\ ssiLoading = TRUE
    /\ ssiError = NoError
    /\ ssiFetches = (IF activeSection = "ssi-watchlist" THEN 1 ELSE 0)
    /\ InitAdmin

NextForms ==
    \/ SessionReplaced("u1")
    \/ SignedInEvent
    \/ \E i \in Slots : SignedInResolve(i)
    \/ TokenRefreshedEvent
    \/ CautiHandleSubmit
    \/ CautiInsertOk
    \/ CautiInsertError
    \/ \E v \in MdrInputs : MdrHandleSubmit(v)
    \/ MdrInsertOk
    \/ MdrInsertError
    \/ \E v \in ClabsiInputs : ClabsiHandleSubmit(v)
    \/ ClabsiInsertOk
    \/ ClabsiInsertError
    \/ SsiOpenModal
    \/ SsiCloseModal
    \/ \E v \in SsiInputs : SsiHandleSubmit(v)
    \/ SsiInsertOk
    \/ SsiInsertError
    \/ SsiDismissAlert
    \/ FetchSsiCasesOk
    \/ FetchSsiCasesFails
    \/ BundleHandleSubmit(1)
    \/ BundleInsertOk(1)
    \/ BundleInsertError(1)
    \/ \E afterInsert \in BOOLEAN : BundleLoadOk(1, afterInsert)
    \/ \E afterInsert \in BOOLEAN : BundleLoadFails(1, afterInsert)

SpecForms == InitFormsSpec /\ [][NextForms]_vars

\* A page being loaded, or a dashboard section with its form filled in; the
\* operations that raise a loading flag, with every awaited call returning
InitLoading == Init \/ InitFormsSpec

NextLoading ==
    \/ InitializeAuthStart
    \/ InitializeAuthSession
    \/ InitializeAuthNoSession
    \/ InitializeAuthThrows
    \/ InitializeAuthFetch
    \/ SignOutStart
    \/ SignOutRemoteOk
    \/ SignOutFinish
    \/ TimerFire
    \/ CautiHandleSubmit
    \/ CautiInsertOk
    \/ CautiInsertError
    \/ \E v \in MdrInputs : MdrHandleSubmit(v)
    \/ MdrInsertOk
    \/ MdrInsertError
    \/ \E v \in ClabsiInputs : ClabsiHandleSubmit(v)
    \/ ClabsiInsertOk
    \/ ClabsiInsertError
    \/ SsiOpenModal
    \/ \E v \in SsiInputs : SsiHandleSubmit(v)
    \/ SsiInsertOk
    \/ SsiInsertError
    \/ FetchSsiCasesOk
    \/ FetchSsiCasesFails
    \/ BundleHandleSubmit(1)
    \/ BundleInsertOk(1)
    \/ BundleInsertError(1)
    \/ \E afterInsert \in BOOLEAN : BundleLoadOk(1, afterInsert)
    \/ \E afterInsert \in BOOLEAN : BundleLoadFails(1, afterInsert)

LoadingFairness ==
    /\ WF_vars(InitializeAuthStart)
    /\ WF_vars(InitializeAuthSession \/ InitializeAuthNoSession \/ InitializeAuthThrows)
    /\ WF_vars(InitializeAuthFetch)
    /\ WF_vars(SignOutFinish)
    /\ WF_vars(CautiInsertOk \/ CautiInsertError)
    /\ WF_vars(MdrInsertOk \/ MdrInsertError)
    /\ WF_vars(ClabsiInsertOk \/ ClabsiInsertError)
    /\ WF_vars(SsiInsertOk \/ SsiInsertError)
    /\ WF_vars(FetchSsiCasesOk \/ FetchSsiCasesFails)
    /\ WF_vars(BundleInsertOk(1) \/ BundleInsertError(1))
    /\ WF_vars(\E afterInsert \in BOOLEAN :
                  BundleLoadOk(1, afterInsert) \/ BundleLoadFails(1, afterInsert))

SpecLoading == InitLoading /\ [][NextLoading]_vars /\ LoadingFairness

\* FormsPage just mounted on its first tab, the first fetch in flight
InitFormsPageSpec ==
    /\ SettledGate("u2", ProfileRow("u2", "active"))
    /\ InitPerm
    /\ InitCauti
    /\ InitBundle
    /\ activeSection = "forms"
    /\ InitZodForms
    /\ InitStatsUsers
    /\ InitAccounts
    /\ InitProfileSection
    /\ fpActiveTab = "CLABSI"
    /\ fpEntries = "none"
    /\ fpLoading = TRUE
    /\ fpError = NoError
    /\ fpFetches = <<"CLABSI">>

NextFormsPage ==
    \/ \E tab \in formTabs : FpSetActiveTab(tab)
    \/ \E i \in 1..MaxFpFetches : FpFetchOk(i)
    \/ \E i \in 1..MaxFpFetches : FpFetchFails(i)

SpecFormsPage == InitFormsPageSpec /\ [][NextFormsPage]_vars

\* MainDashboard as first shown to either user, its navigation, and a
\* sign-in as the other user reported by the auth client
InitDashboardSpec ==
    /\ \E u \in Users : SettledGate(u, ProfileRow(u, "active"))
    /\ InitPerm
    /\ InitCauti
    /\ InitSuite

NextDashboard ==
    \/ \E section \in {"dashboard", "ssi-watchlist", "forms", "analytics",
                        "admin-users", "profile"} : HandleSectionChange(section)
    \/ \E i \in DOMAIN formTypes : HandleFormSelect(formTypes[i].id)
    \/ \E u \in Users : SessionReplaced(u)
    \/ SignedInEvent
    \/ \E i \in Slots : SignedInResolve(i)

SpecDashboard == InitDashboardSpec /\ [][NextDashboard]_vars

\* An administrator's MainDashboard on User Management (its list loading),
\* on Profile, or on the bundle form over a table of one entry.  The third
\* profile row is absent, or a row created without an auth account.
UsersSections == {"admin-users", "profile", "clabsi-bundle-form"}
LegacyRow == [state |-> "active", user_id |-> NoUser]

InitUsersSpec ==
    /\ SettledGate("u1", ProfileRow("u1", "active"))
    /\ InitPerm
    /\ InitCauti
    /\ InitZodForms
    /\ InitFormsPage
    /\ InitProfileSection
    /\ activeSection \in UsersSections
    /\ bundleFormData = [t \in Tabs |-> IF t = 1 THEN SeedForm ELSE emptyBundleForm]
    /\ selectedPatient = [t \in Tabs |-> FALSE]
    /\ savedEntries = [t \in Tabs |-> {}]
    /\ bundleLoading = [t \in Tabs |-> FALSE]
    /\ bundleModalContent = [t \in Tabs |-> NoModal]
    /\ bundleMountLoad = [t \in Tabs |-> t = 1 /\ activeSection = "clabsi-bundle-form"]
    /\ bundleReload = [t \in Tabs |-> FALSE]
    /\ bundleInsert = [t \in Tabs |-> NoBundleInsert]
    /\ bundleTable = {SeedRow}
    /\ bundleNextId = 2
    /\ statsPc = 1
    /\ statsResponses = [k \in 1..NumStatsCalls |-> "none"]
    /\ statsThrown = FALSE
    /\ dashboardStats = ZeroStats
    /\ statsLoading = TRUE
    /\ umPc = (IF activeSection = "admin-users" THEN "mount" ELSE "idle")
    /\ umError = NoError
    /\ umSuccess = NoError
    /\ umActionLoading = NoError
    /\ umLoading = TRUE
    /\ umAuthError = FALSE
    /\ umListed = FALSE
    /\ authUsers = Users
    /\ extraRow \in {NoExtraRow, LegacyRow}
    /\ lastWrite = NoWrite
    /\ umTarget = "none"
    /\ umForm = TRUE

NextUsers ==
    \/ \E valid, active \in BOOLEAN : UmCreateUser(valid, active)
    \/ \E k \in ProfileIds : UmCreateAuthForProfile(k)
    \/ \E ok \in BOOLEAN : UmSignUpReturns(ok)
    \/ UmProfileInsertOk
    \/ UmLinkUpdateOk
    \/ UmSecondStepFails
    \/ \E failed \in BOOLEAN : UmRollbackReturns(failed)
    \/ \E ok \in BOOLEAN : UmFetchCreatedReturns(ok)
    \/ \E k \in ProfileIds : UmToggleUserStatus(k)
    \/ UmToggleOk
    \/ UmUpdateFails
    \/ \E k \in ProfileIds, active \in BOOLEAN : UmUpdateUser(k, active)
    \/ UmUserUpdateOk
    \/ \E ok \in BOOLEAN : UmFetchUpdatedReturns(ok)
    \/ UmUpdateFinish
    \/ UmDeleteUser
    \/ UmProfileDeleteOk(RowUserId(ProfileIdOf[TargetUser]))
    \/ UmProfileDeleteFails
    \/ \E failed \in BOOLEAN : UmAuthDeleteReturns(failed)
    \/ UmFetchUsersOk
    \/ UmFetchUsersFails
    \/ \E nameGiven \in BOOLEAN : PsHandleProfileSubmit(nameGiven)
    \/ PsUpdateOk
    \/ PsUpdateFails
    \/ PsRefreshReturned
    \/ \E i \in Slots : RefreshProfileResolve(i)
    \/ SessionReplaced("u2")
    \/ TokenRefreshedEvent
    \/ BundleHandleSubmit(1)
    \/ BundleInsertOk(1)
    \/ BundleInsertError(1)
    \/ \E afterInsert \in BOOLEAN : BundleLoadOk(1, afterInsert)
    \/ \E afterInsert \in BOOLEAN : BundleLoadFails(1, afterInsert)

SpecUsers == InitUsersSpec /\ [][NextUsers]_vars

\* An administrator's MainDashboard: the statistics are loading, and the
\* section shown is User Management (its list loading) or a form
AdminSections == {"admin-users", "mdr-form", "clabsi-form"}

InitAdminSpec ==
    /\ SettledGate("u1", ProfileRow("u1", "active"))
    /\ InitPerm
    /\ InitCauti
    /\ InitBundle
    /\ activeSection \in AdminSections
    /\ mdrLoading = FALSE
    /\ mdrFormStatus = NoStatus
    /\ mdrErrors = {}
    /\ mdrInsert = NoMdrInsert
    /\ clabsiLoading = FALSE
    /\ clabsiFormStatus = NoStatus
    /\ clabsiErrors = {}
    /\ clabsiInsert = NoClabsiInsert
    /\ ssiModalOpen = FALSE
    /\ ssiErrors = {}
    /\ ssiSubmitting = FALSE
    /\ ssiInsert = NoSsiInsert
    /\ ssiAlert = NoError
    /\ ssiLoading = TRUE
    /\ ssiError = NoError
    /\ ssiFetches = 0
    /\ statsPc = 1
    /\ statsResponses = [k \in 1..NumStatsCalls |-> "none"]
    /\ statsThrown = FALSE
    /\ dashboardStats = ZeroStats
    /\ statsLoading = TRUE
    /\ umPc = (IF activeSection = "admin-users" THEN "mount" ELSE "idle")
    /\ umError = NoError
    /\ umSuccess = NoError
    /\ umActionLoading = NoError
    /\ umLoading = TRUE
    /\ umAuthError = FALSE
    /\ umListed = FALSE
    /\ InitAccounts
    /\ InitFormsPage
    /\ InitProfileSection

NextAdmin ==
    \/ \E outcome \in {"ok", "error"} : StatsCallReturns(outcome)
    \/ StatsCallThrows
    \/ UmDeleteUser
    \/ \E authUserId \in {NoUser, TargetUser} : UmProfileDeleteOk(authUserId)
    \/ UmProfileDeleteFails
    \/ \E failed \in BOOLEAN : UmAuthDeleteReturns(failed)
    \/ UmFetchUsersOk
    \/ UmFetchUsersFails
    \/ UmClearSuccess
    \/ UmClearError
    \/ \E v \in MdrInputs : MdrHandleSubmit(v)
    \/ MdrInsertOk
    \/ MdrInsertError
    \/ \E v \in ClabsiInputs : ClabsiHandleSubmit(v)
    \/ ClabsiInsertOk
    \/ ClabsiInsertError

SpecAdmin == InitAdminSpec /\ [][NextAdmin]_vars

\* Two tabs on the bundle form over one table: tab 1 opens the form and
\* fills it in, tab 2 has an entry for the same patient ready to save; both
\* lists are still loading
TabForm ==
    [emptyBundleForm EXCEPT !.patientId = "P1", !.admissionDate = 1,
                            !.admissionShift = "M", !.entryDate = 1, !.shift = "M"]

InitBundleTabs ==
    /\ SettledGate("u2", ProfileRow("u2", "active"))
    /\ InitPerm
    /\ InitCauti
    /\ activeSection = "clabsi-bundle-form"
    /\ InitForms
    /\ bundleFormData = [t \in Tabs |-> IF t = 1 THEN emptyBundleForm ELSE TabForm]
    /\ selectedPatient = [t \in Tabs |-> FALSE]
    /\ savedEntries = [t \in Tabs |-> {}]
    /\ bundleLoading = [t \in Tabs |-> FALSE]
    /\ bundleModalContent = [t \in Tabs |-> NoModal]
    /\ bundleMountLoad = [t \in Tabs |-> TRUE]
    /\ bundleReload = [t \in Tabs |-> FALSE]
    /\ bundleInsert = [t \in Tabs |-> NoBundleInsert]
    /\ bundleTable = {}
    /\ bundleNextId = 1

NextBundleTabs ==
    \/ BundleSetPatientId(1, TabForm.patientId)
    \/ BundleSetAdmissionDate(1, TabForm.admissionDate)
    \/ BundleSetAdmissionShift(1, TabForm.admissionShift)
    \/ BundleSetEntryDate(1, TabForm.entryDate)
    \/ BundleSetShift(1, TabForm.shift)
    \/ \E checked \in BOOLEAN : BundleToggle(1, "dressingChangeDaily", checked)
    \/ \E t \in Tabs :
          \/ BundleHandleSubmit(t)
          \/ BundleInsertOk(t)
          \/ BundleInsertError(t)
          \/ \E afterInsert \in BOOLEAN : BundleLoadOk(t, afterInsert)
          \/ \E afterInsert \in BOOLEAN : BundleLoadFails(t, afterInsert)

SpecBundleTabs == InitBundleTabs /\ [][NextBundleTabs]_vars

---------------------------------------------------------------------------
(* Claims *)

PrivilegedRoles == {"ADMIN", "IPC_FOCAL", "IPC_OFFICER"}

\* C1: for every profile (role r, department d) and form type f,
\* canAccessForm(f) is true iff r is ADMIN, IPC_FOCAL or IPC_OFFICER, or f is
\* in both ROLE_FORM_PERMISSIONS[r] and DEPARTMENT_FORM_PERMISSIONS[d].
C1_CanAccessFormIff ==
    (permForm # NoForm /\ profile # NoProfile) =>
        permResult =
            (\/ profile.role \in PrivilegedRoles
             \/ /\ permForm \in ROLE_FORM_PERMISSIONS[profile.role]
                /\ permForm \in DEPARTMENT_FORM_PERMISSIONS[profile.department])

\* A query the conjunction decides: the department lists MDRO, the role does not.
C1_Witness ==
    /\ profile # NoProfile
    /\ profile.role = "STAFF_NURSE"
    /\ profile.department = "ICU"
    /\ permForm = "MDRO"
    /\ permResult = FALSE

\* C2: whenever the profile is absent, canAccessForm is false for every form
\* type, hasRole is false for every role, and isAdmin, isIpcFocal and
\* isIpcOfficer are false.
C2_FailsClosed ==
    profile = NoProfile =>
        /\ \A f \in FormType : ~canAccessForm(f)
        /\ \A r \in UserRole : ~hasRole(r)
        /\ ~isAdmin /\ ~isIpcFocal /\ ~isIpcOfficer

\* Authenticated, loading finished, and no profile.
C2_Witness ==
    /\ initialized
    /\ ~loading
    /\ user # NoUser
    /\ profile = NoProfile

\* C3: the dashboard is rendered only when loading is finished, a user is
\* set, and the profile held is an active row fetched for that same user.
C3_DashboardOnlyForOwnActiveProfile ==
    HomePageView = "dashboard" =>
        /\ ~loading
        /\ user # NoUser
        /\ profile # NoProfile
        /\ profile.is_active
        /\ profile.user_id = user


\* C4: a call of signOut ends with user and profile both null and the route
\* /login, whether the remote sign-out succeeds, returns an error or throws.
C4_SignOutEndsUnauthenticated ==
    [][SignOutFinish =>
          (user' = NoUser /\ profile' = NoProfile /\ route' = "/login")]_vars

\* C5: signOut clears user, profile and error before it issues the remote
\* call, and the redirect to /login happens only with user and profile null.
C5_ClearedBeforeRemoteAndRedirect ==
    [][/\ SignOutStart =>
             (user' = NoUser /\ profile' = NoProfile /\ error' = NoError)
       /\ SignOutFinish => (user = NoUser /\ profile = NoProfile)]_vars

\* C6: once sign-out has cleared the cache and ended the session, user and
\* profile stay null until a later sign-in (which sets the session): no fetch
\* that was in flight writes them.
C6_NoWriteAfterSignOut ==
    [][(/\ initialized /\ initialized'
        /\ session = NoUser /\ session' = NoUser
        /\ user = NoUser /\ profile = NoProfile)
       => (user' = NoUser /\ profile' = NoProfile)]_vars

\* C7 as claimed: from authenticated-no-profile the gate only stays or goes
\* to unauthenticated.
C7_NoProfileIsTerminal ==
    [][(user # NoUser /\ profile = NoProfile)
       => (profile' = NoProfile)]_vars

\* C7 as amended: the gate leaves authenticated-no-profile for a profile only
\* when a profile fetch (the SIGNED_IN handler's or refreshProfile's) returns
\* an active row; no other step, TOKEN_REFRESHED included, grants a profile.
C7_LeavesNoProfileOnlyByFetch ==
    [][(user # NoUser /\ profile = NoProfile /\ profile' # NoProfile)
       => /\ profile'.is_active
          /\ \E i \in Slots : SignedInResolve(i) \/ RefreshProfileResolve(i)]_vars

\* Authenticated without a profile while a SIGNED_IN fetch that can find an
\* active row is in flight.
C7_Witness ==
    /\ initialized
    /\ user # NoUser
    /\ profile = NoProfile
    /\ \E i \in Slots :
          fetches[i].kind = "signedIn" /\ dbRow[fetches[i].uid] = "active"

\* C8: whenever loading is finished, a user is set and the profile is absent,
\* an error message is set (without one HomePage renders nothing instead of
\* the Profile Issue screen).
C8_NoProfileShowsProfileIssue ==
    (~loading /\ user # NoUser /\ profile = NoProfile) =>
        error # NoError

\* C9: a handleSubmit with every symptom flag false rejects the submission
\* (an error is set, the form is kept) and issues no insert.
C9_NoSymptomNoInsert ==
    [][(CautiHandleSubmit /\ ~SomeTrue(formData.symptoms))
       => /\ ~cautiInsert'.pending
          /\ ~cautiLoading'
          /\ cautiError' # NoError
          /\ cautiSuccess' = NoError]_vars

\* A rejected submission whose only defect is the missing symptom.
C9_Witness ==
    /\ profile # NoProfile
    /\ ~MissingRequired(formData)
    /\ ~SomeTrue(formData.symptoms)
    /\ SomeTrue(formData.laboratory_findings)
    /\ cautiError = E_SYMPTOM
    /\ ~cautiInsert.pending

\* C10 as claimed: accepted only with a symptom and a laboratory finding, and
\* a category without a flag is named by the error of the rejection.
C10_ErrorNamesMissingCategory ==
    [][CautiHandleSubmit
       => /\ cautiInsert'.pending =>
                (SomeTrue(formData.symptoms) /\ SomeTrue(formData.laboratory_findings))
          /\ ~SomeTrue(formData.symptoms) => cautiError' = E_SYMPTOM
          /\ ~SomeTrue(formData.laboratory_findings) => cautiError' = E_LAB]_vars

\* C10 as amended: accepted only with a symptom and a laboratory finding; a
\* submission lacking either is rejected with an error; with a loaded profile
\* and the required fields filled that error names signs/symptoms when no
\* symptom is set, and laboratory findings when only that category is empty.
C10_ErrorNamesFirstMissingCategory ==
    [][CautiHandleSubmit
       => /\ cautiInsert'.pending =>
                (SomeTrue(formData.symptoms) /\ SomeTrue(formData.laboratory_findings))
          /\ (~SomeTrue(formData.symptoms) \/ ~SomeTrue(formData.laboratory_findings))
                => (~cautiInsert'.pending /\ cautiError' # NoError)
          /\ (profile # NoProfile /\ user # NoUser /\ ~MissingRequired(formData))
                => /\ ~SomeTrue(formData.symptoms) => cautiError' = E_SYMPTOM
                   /\ (SomeTrue(formData.symptoms)
                       /\ ~SomeTrue(formData.laboratory_findings))
                         => cautiError' = E_LAB]_vars

\* A rejected submission whose only defect is the missing laboratory finding.
C10_Witness ==
    /\ profile # NoProfile
    /\ ~MissingRequired(formData)
    /\ SomeTrue(formData.symptoms)
    /\ ~SomeTrue(formData.laboratory_findings)
    /\ cautiError = E_LAB
    /\ ~cautiInsert.pending


\* The (patient, date, shift) triple of the tab's form is in its loaded list
TripleLoaded(t) ==
    \E e \in savedEntries[t] :
        /\ e.patient_id = bundleFormData[t].patientId
        /\ e.entry_date = bundleFormData[t].entryDate
        /\ e.shift = bundleFormData[t].shift

\* C12: a bundle handleSubmit whose (patientId, entryDate, shift) is already
\* in the loaded savedEntries shows an error message and issues no insert.
C12_DuplicateRejected ==
    [][\A t \in Tabs :
          (BundleHandleSubmit(t) /\ TripleLoaded(t))
          => /\ bundleModalContent'[t].type = "error"
             /\ ~bundleInsert'[t].pending
             /\ ~bundleLoading'[t]
             /\ bundleTable' = bundleTable]_vars

\* A complete form rejected as a duplicate of a loaded entry.
C12_Witness ==
    /\ ~BundleMissingRequired(bundleFormData[1])
    /\ TripleLoaded(1)
    /\ bundleModalContent[1] = M_DUPLICATE
    /\ ~bundleInsert[1].pending

\* C13: the stored bundle entries hold at most one row per
\* (patient, date, shift) triple.
C13_OneRowPerTriple ==
    \A e \in bundleTable : \A f \in bundleTable :
        (/\ e.patient_id = f.patient_id
         /\ e.entry_date = f.entry_date
         /\ e.shift = f.shift) => e.id = f.id

\* C14: calculateDayNumber is 1 when the entry date is the admission date
\* and, from the admission date on, grows by exactly 1 with each further day.
C14_DayNumberCountsFromOne ==
    \A t \in Tabs :
        LET fd == bundleFormData[t]
        IN  (fd.admissionDate # NoDate /\ fd.entryDate # NoDate
             /\ fd.entryDate >= fd.admissionDate)
            => /\ fd.entryDate = fd.admissionDate => calculateDayNumber(fd) = 1
               /\ calculateDayNumber([fd EXCEPT !.entryDate = fd.entryDate + 1])
                     = calculateDayNumber(fd) + 1
               /\ (/\ bundleInsert[t].pending
                   /\ bundleInsert[t].entry.entry_date = bundleInsert[t].entry.admission_date)
                     => bundleInsert[t].entry.day_number = 1

\* An entry dated two days after admission about to be stored as day 3.
C14_Witness ==
    /\ bundleFormData[1].admissionDate = 1
    /\ bundleFormData[1].entryDate = 3
    /\ bundleInsert[1].pending
    /\ bundleInsert[1].entry.admission_date = 1
    /\ bundleInsert[1].entry.day_number = 3

\* The entries stored or about to be stored
BundleEntries ==
    bundleTable \cup {bundleInsert[t].entry : t \in {x \in Tabs : bundleInsert[x].pending}}

\* C15: the day_number of every bundle entry is the number of days between
\* its entry date and its admission date, in either direction, plus 1.
C15_DayNumberIsDistancePlusOne ==
    \A e \in BundleEntries :
        e.day_number =
            (IF e.entry_date >= e.admission_date
             THEN e.entry_date - e.admission_date
             ELSE e.admission_date - e.entry_date) + 1

\* A stored entry dated two days before admission, numbered like one dated
\* two days after it.
C15_Witness ==
    \E e \in bundleTable :
        /\ e.admission_date = 3
        /\ e.entry_date = 1
        /\ e.day_number = 3

\* The components calculateCompliance should count for an entry
CountedComponents(e) ==
    (IF e.day_number = 1 /\ e.skin_prep_2chg THEN 1 ELSE 0)
    + (IF e.dressing_change_daily THEN 1 ELSE 0)
    + (IF e.patency_lumens THEN 1 ELSE 0)
    + (IF e.hub_care_alcohol THEN 1 ELSE 0)
    + (IF e.iv_tubing_change_daily THEN 1 ELSE 0)

DayOneScores == <<0, 20, 40, 60, 80, 100>>
LaterDayScores == <<0, 25, 50, 75, 100>>

\* C16: the compliance score of every bundle entry is the rounded percentage
\* of completed components out of 5 on day 1 (skin-prep counted) and out of
\* 4 on later days (skin-prep not counted), and lies between 0 and 100.
C16_ComplianceDenominator ==
    \A e \in BundleEntries :
        /\ e.compliance_score =
              (IF e.day_number = 1
               THEN DayOneScores[CountedComponents(e) + 1]
               ELSE LaterDayScores[CountedComponents(e) + 1])
        /\ e.compliance_score >= 0
        /\ e.compliance_score <= 100

\* A later-day entry with all four of its components done, scored 100, saved
\* with the skin-prep box still ticked.
C16_Witness ==
    \E e \in bundleTable :
        /\ e.day_number > 1
        /\ e.skin_prep_2chg
        /\ CountedComponents(e) = 4
        /\ e.compliance_score = 100


\* C11: in every form (CAUTI, CLABSI incidence, MDRO, SSI case, CLABSI
\* bundle) an insert is issued only for submitted data that passes all the
\* validation checks of that form; a submit of data that fails one issues none.
C11_InsertOnlyAfterValidation ==
    [][/\ (cautiInsert'.pending /\ ~cautiInsert.pending) =>
              /\ cautiInsert'.data = formData
              /\ formData.patient_name # ""
              /\ formData.hospital_id # ""
              /\ formData.ward_bed_number # ""
              /\ formData.catheter_insertion_date # ""
              /\ \E k \in SymptomKeys : formData.symptoms[k]
              /\ \E k \in LabKeys : formData.laboratory_findings[k]
       /\ (mdrInsert'.pending /\ ~mdrInsert.pending) =>
              /\ mdrInsert'.payload.hospital_id # ""
              /\ mdrInsert'.payload.full_name \notin {"", "Al"}
              /\ AgeTenths[mdrInsert'.payload.age.text] >= 0
              /\ mdrInsert'.payload.sex \in {"Male", "Female"}
       /\ (clabsiInsert'.pending /\ ~clabsiInsert.pending) =>
              /\ clabsiInsert'.payload.patient_name \notin {"", "Al"}
              /\ clabsiInsert'.payload.hospital_id # ""
              /\ clabsiInsert'.payload.department \in DepartmentType
       /\ (ssiInsert'.pending /\ ~ssiInsert.pending) =>
              /\ ssiInsert'.payload.patient_name \notin {"", "Al"}
              /\ ssiInsert'.payload.hospital_id # ""
              /\ ssiInsert'.payload.department \in DepartmentType
              /\ ssiInsert'.payload.priority \in {"HIGH", "MEDIUM", "LOW"}
       /\ (bundleInsert'[1].pending /\ ~bundleInsert[1].pending) =>
              /\ bundleInsert'[1].entry.patient_id = bundleFormData[1].patientId
              /\ bundleFormData[1].patientId # NoPatient
              /\ bundleFormData[1].entryDate # NoDate
              /\ bundleFormData[1].shift # NoShift
              /\ bundleFormData[1].admissionDate # NoDate
              /\ bundleFormData[1].admissionShift # NoShift
              /\ ~\E e \in savedEntries[1] :
                    /\ e.patient_id = bundleFormData[1].patientId
                    /\ e.entry_date = bundleFormData[1].entryDate
                    /\ e.shift = bundleFormData[1].shift
      ]_vars

\* A submit of the MDRO form was turned down with field errors and nothing
\* was sent.
C11_Witness ==
    /\ activeSection = "mdr-form"
    /\ "full_name" \in mdrErrors
    /\ ~mdrInsert.pending
    /\ ~mdrLoading
    /\ mdrFormStatus = NoStatus


\* C19: no insert carries an enumerated field outside its allowed set: the
\* gender of a CAUTI record and the sex of an MDRO record are Male or Female,
\* the priority of an SSI case is HIGH, MEDIUM or LOW.
C19_EnumeratedFieldsInRange ==
    /\ cautiInsert.pending => cautiInsert.data.gender \in {"Male", "Female"}
    /\ mdrInsert.pending => mdrInsert.payload.sex \in {"Male", "Female"}
    /\ ssiInsert.pending => ssiInsert.payload.priority \in {"HIGH", "MEDIUM", "LOW"}

\* A CAUTI record with the sex chosen in the select is being inserted.
C19_Witness ==
    /\ cautiInsert.pending
    /\ cautiInsert.data.gender = "Female"


\* C18: the age carried by every CAUTI and MDRO insert is a non-negative
\* integer (an empty or malformed input having been replaced by 0).
C18_AgeNonNegativeInteger ==
    /\ cautiInsert.pending =>
          /\ cautiInsert.data.age.text # ""
          /\ AgeTenths[cautiInsert.data.age.text] >= 0
          /\ AgeTenths[cautiInsert.data.age.text] % 10 = 0
    /\ mdrInsert.pending =>
          /\ mdrInsert.payload.age.text # ""
          /\ AgeTenths[mdrInsert.payload.age.text] >= 0
          /\ AgeTenths[mdrInsert.payload.age.text] % 10 = 0


\* C17: every insert issued by a form submission is stamped with a non-null
\* submitter identity that identifies the user signed in at the submit: the
\* user's id, or (CAUTI) the id of that user's profile.
C17_SubmitterIsSignedInUser ==
    [][/\ (cautiInsert'.pending /\ ~cautiInsert.pending) =>
              /\ user # NoUser
              /\ cautiInsert'.submitted_by = ProfileIdOf[user]
       /\ (mdrInsert'.pending /\ ~mdrInsert.pending) =>
              /\ user # NoUser
              /\ mdrInsert'.payload.created_by = user
       /\ (clabsiInsert'.pending /\ ~clabsiInsert.pending) =>
              /\ user # NoUser
              /\ clabsiInsert'.payload.submitted_by = user
       /\ (ssiInsert'.pending /\ ~ssiInsert.pending) =>
              /\ user # NoUser
              /\ ssiInsert'.payload.created_by = user
       /\ (bundleInsert'[1].pending /\ ~bundleInsert[1].pending) =>
              /\ user # NoUser
              /\ bundleInsert'[1].entry.created_by = user
      ]_vars


\* C20: an operation one of whose remote calls returned or raised an error
\* ends with an error message shown and no success message: a failed insert
\* of a form, a failed user_profiles or auth delete or list reload of
\* deleteUser, a failed list load.  useDashboardStats has no message to set:
\* a failed count call at least does not end as unchanged or zeroed figures.
C20_RemoteErrorsSurface ==
    [][/\ MdrInsertError => mdrFormStatus'.type = "error"
       /\ ClabsiInsertError => clabsiFormStatus'.type = "error"
       /\ UmProfileDeleteFails => (umError' # NoError /\ umSuccess' = NoError)
       /\ (umPc = "fetchUsers" /\ umPc' = "idle" /\ (umAuthError \/ UmFetchUsersFails)) =>
              (umError' # NoError /\ umSuccess' = NoError)
       /\ (umPc = "mount" /\ UmFetchUsersFails) => umError' # NoError
       /\ (statsPc # StatsDone /\ statsPc' = StatsDone) =>
              /\ statsThrown' => dashboardStats' # ZeroStats
              /\ statsResponses'[1] = "error" => dashboardStats'.cautiCases # 0
              /\ statsResponses'[2] = "error" => dashboardStats'.clabsiCases # 0
              /\ statsResponses'[3] = "error" => dashboardStats'.mdroCases # 0
      ]_vars


\* C27: for every role other than ADMIN, IPC_FOCAL and IPC_OFFICER, in every
\* department, canAccessForm(CLABSI_BUNDLE) is false; availableForms holds
\* the CLABSI bundle form exactly for those three roles and never the
\* disabled SSI form.
C27_BundleFormOnlyForPrivilegedRoles ==
    /\ (profile # NoProfile /\ profile.role \notin PrivilegedRoles) =>
          ~canAccessForm("CLABSI_BUNDLE")
    /\ "CLABSI_BUNDLE" \in availableForms <=>
          (profile # NoProfile /\ profile.role \in PrivilegedRoles)
    /\ "SSI" \notin availableForms
    /\ permForm = "CLABSI_BUNDLE" =>
          permResult = (profile # NoProfile /\ profile.role \in PrivilegedRoles)

\* The IPC committee role in the IPC committee department, whose lists hold
\* every surveillance form, is asked for the bundle form and refused; its
\* other forms are offered.
C27_Witness ==
    /\ profile # NoProfile
    /\ profile.role = "IPC_COMMITTEE"
    /\ profile.department = "IPC_COMMITTEE"
    /\ permForm = "CLABSI_BUNDLE"
    /\ permResult = FALSE
    /\ availableForms = {"CLABSI", "CAUTI", "MDRO"}


\* C30: whenever HomePage shows the 'Redirecting to login...' placeholder
\* (loading finished, shouldRedirect true) it eventually navigates to /login,
\* also when user or loading changed during the delay and the pending timer
\* was cancelled.
C30_RedirectPlaceholderEnds ==
    (route = "/" /\ ~loading /\ shouldRedirect) ~> (route = "/login")


\* C21: every loading flag that an operation sets to true (auth
\* initialization, sign-out, a form submission, a bundle-entry save, a list
\* fetch) is eventually false again, whether the awaited call succeeds,
\* returns an error or throws.
C21_LoadingFlagsReset ==
    /\ loading ~> ~loading
    /\ cautiLoading ~> ~cautiLoading
    /\ bundleLoading[1] ~> ~bundleLoading[1]
    /\ mdrLoading ~> ~mdrLoading
    /\ clabsiLoading ~> ~clabsiLoading
    /\ ssiSubmitting ~> ~ssiSubmitting
    /\ (ssiLoading /\ ssiFetches > 0) ~> ~ssiLoading

\* A failed CAUTI submission and then a sign-out have both finished with
\* their flags down
C21_Witness ==
    /\ route = "/login"
    /\ ~loading
    /\ signOutPc = "idle"
    /\ cautiError = E_INSERT
    /\ ~cautiLoading


\* C26: no bundle entry is inserted whose entry date is later than the
\* patient's discharge date: every row of the table with a discharge date
\* has an entry date on or before it, and so has every insert in flight.
C26_NoEntryAfterDischarge ==
    /\ \A e \in bundleTable :
          e.discharge_date # NoDate => e.entry_date <= e.discharge_date
    /\ \A t \in Tabs :
          bundleInsert[t].pending /\ bundleInsert[t].entry.discharge_date # NoDate
             => bundleInsert[t].entry.entry_date <= bundleInsert[t].entry.discharge_date


\* C28: in FormsPage, whenever loading is false and the list is shown, the
\* entries are those of the currently active tab and no fetch is in flight,
\* also after tab switches whose responses arrive out of order.
C28_EntriesOfActiveTab ==
    (FormMounted("forms") /\ ~fpLoading /\ fpError = NoError)
        => (fpEntries = fpActiveTab /\ fpFetches = <<>>)


\* Whether the profile p is authorized for a section of the dashboard
AuthorizedSection(section, p) ==
    CASE section \in {"clabsi-form", "clabsi-bundle-form", "cauti-form", "mdr-form"} ->
            \E f \in availableFormsOf(p) : SectionOfForm(f) = section
      [] section = "analytics" -> p.role \in {"ADMIN", "IPC_FOCAL"}
      [] section = "ssi-watchlist" -> canSeeSsiOf(p)
      [] section = "admin-users" -> p.role = "ADMIN"
      [] OTHER -> TRUE

\* C25: the section the dashboard shows is one the current profile is
\* authorized for: a form section only for a non-disabled form type with
\* canAccessForm true, analytics only for ADMIN or IPC_FOCAL, the SSI
\* watchlist only when canSeeSsi, user management only for ADMIN.
C25_SectionShownIsAuthorized ==
    HomePageView = "dashboard" => AuthorizedSection(SectionShown, profile)


\* C29: through the user-management operations (status toggle, delete,
\* edit) an administrator cannot deactivate or delete their own profile:
\* while the administrator is the signed-in user, the administrator's own
\* profile row exists and is active.
C29_OwnProfileStaysActive ==
    \A u \in Users :
        (user = u /\ session = u /\ RoleOf[u] = "ADMIN") => dbRow[u] = "active"


\* The active profile rows whose user_id is the auth identity a
ActiveProfilesOf(a) == {k \in ProfileIds : RowState(k) = "active" /\ RowUserId(k) = a}

\* C23: once a user-management operation (create user, create auth account
\* for a profile, edit, toggle status, delete) has run to its end, also one
\* whose second remote step failed, every auth identity is linked to exactly
\* one active profile.
C23_IdentityHasOneActiveProfile ==
    umPc = "idle" => \A a \in authUsers : Cardinality(ActiveProfilesOf(a)) = 1


\* The profile row k is absent after the step
RowsGone(k) == IF k = "p3" THEN extraRow'.state = "none" ELSE dbRow'[UserOfRow[k]] = "none"

C22_RoleWritesByAdministratorOnly ==
    lastWrite.by # "none" =>
        /\ lastWrite.columns \cap {"role", "department", "is_active"} # {}
              => (lastWrite.user # NoUser /\ RoleOf[lastWrite.user] = "ADMIN")
        /\ lastWrite.by = "handleProfileSubmit"
              => /\ lastWrite.columns = ProfileColumns
                 /\ lastWrite.user # NoUser
                 /\ lastWrite.row = ProfileIdOf[lastWrite.user]

============================================================================
